---- MODULE Spec2Model ----
(***************************************************************************)
(* CORTEX: Case of the Ghost Algorithm.                                    *)
(* Model of the game-state store and accusation evaluator (js/state.js),   *)
(* the content catalog it reads (js/data.js) and the event handlers that   *)
(* drive it (js/main.js).                                                  *)
(*                                                                         *)
(* Catalog objects are represented by their ids.  Every function of        *)
(* state.js is an operator from a state record (and its arguments) to a    *)
(* record [state, ret, warn]: the state it leaves, the value it returns    *)
(* and whether it called console.warn.  An action applies one operator to  *)
(* the single live state, currentState.                                    *)
(***************************************************************************)
EXTENDS Integers, Sequences, FiniteSets, TLC

VARIABLES
    currentState, \* state.js: let currentState
    ret,          \* value returned by the last call
    warned,       \* whether the last call logged a console.warn
    lastOp,       \* the last call: its name, its arguments, and whether it repeats the call before it
    calls,        \* number of calls made so far (used by Spec only)
    feed,         \* ui.js: the messages the last handler appended to #cortex-feed
    form          \* ui.js: the selects of the accusation form in the notebook

vars == <<currentState, ret, warned, lastOp, calls, feed, form>>

(***************************************************************************)
(* JavaScript values                                                       *)
(***************************************************************************)
null == "null"
undefined == "undefined"

RetUndefined == [tag |-> "undefined"]
RetNull == [tag |-> "null"]
RetClue(id) == [tag |-> "clue", id |-> id]
RetString(v) == [tag |-> "string", value |-> v]
RetBoolean(v) == [tag |-> "boolean", value |-> v]

\* A thrown exception, as the outcome of a call
RetThrow(name) == [tag |-> "throw", name |-> name]

\* The tables keyed by id are plain objects, so TABLE[id] also finds the
\* members every object inherits from Object.prototype.  These are
\* functions; the map gives the length property of three of them.
ObjectPrototype ==
    ("hasOwnProperty" :> 1) @@ ("toString" :> 0) @@ ("__defineGetter__" :> 2)

Range(arr) == {arr[i] : i \in DOMAIN arr}

\* The accusation form before renderNotebook has filled its selects: no
\* option is chosen and nothing is disabled
blankForm ==
    [suspect |-> [value |-> "", disabled |-> FALSE],
     motive |-> [value |-> ""],
     evidence |-> [value |-> ""]]

\* Array.prototype.includes
includes(arr, value) == \E i \in DOMAIN arr : arr[i] = value

\* Array.prototype.filter, keeping the order of arr
RECURSIVE filter(_, _)
filter(arr, keep) ==
    IF arr = <<>> THEN <<>>
    ELSE IF Head(arr) \in keep THEN <<Head(arr)>> \o filter(Tail(arr), keep)
    ELSE filter(Tail(arr), keep)

(***************************************************************************)
(* Content catalog (js/data.js)                                            *)
(***************************************************************************)
LOCATIONS == <<"lab", "server_vault", "rooftop">>

SUSPECTS == <<"rhea", "milo", "dana">>

MOTIVES == <<"greed", "fear", "coverup">>

CLUES == <<"locked_office", "badge_log_anomaly", "audit_log_redactions",
           "investor_pressure_email", "rooftop_argument", "cortex_memory_gap",
           "milo_casino_sim", "victim_exit_request">>

INTRO_DIALOGUE == <<"intro_1", "intro_2", "intro_3", "intro_4">>

LOCATION_DIALOGUE ==
    [lab |-> [intro |-> <<"lab_intro_1", "lab_intro_2">>, repeat |-> <<"lab_repeat_1">>],
     server_vault |-> [intro |-> <<"vault_intro_1", "vault_intro_2">>, repeat |-> <<"vault_repeat_1">>],
     rooftop |-> [intro |-> <<"roof_intro_1", "roof_intro_2">>, repeat |-> <<"roof_repeat_1">>]]

SUSPECT_DIALOGUE ==
    [rhea |-> [intro |-> <<"rhea_intro_1", "rhea_intro_2">>],
     milo |-> [intro |-> <<"milo_intro_1", "milo_intro_2">>],
     dana |-> [intro |-> <<"dana_intro_1", "dana_intro_2">>]]

ENDINGS ==
    [perfect |-> <<"ending_perfect_1", "ending_perfect_2">>,
     close |-> <<"ending_close_1">>,
     wrong |-> <<"ending_wrong_1">>]

(***************************************************************************)
(* Game phases and the case solution (js/state.js)                         *)
(***************************************************************************)
GAME_PHASES ==
    [INTRO |-> "intro", INVESTIGATION |-> "investigation", DEDUCTION |-> "deduction",
     ACCUSATION |-> "accusation", ENDING |-> "ending"]

PhaseValues == {GAME_PHASES[k] : k \in DOMAIN GAME_PHASES}

CASE_SOLUTION ==
    [culpritId |-> "rhea",
     motiveId |-> "coverup",
     criticalClueIds |-> <<"locked_office", "badge_log_anomaly", "audit_log_redactions",
                           "rooftop_argument", "victim_exit_request">>]

createInitialState ==
    [phase |-> GAME_PHASES.INTRO,
     currentLocationId |-> null,
     previousLocationId |-> null,
     visitedLocationIds |-> <<>>,
     discoveredClueIds |-> <<>>,
     labActionsUsed |-> {},
     flags |-> [n \in {} |-> FALSE],
     dialogueContext |-> [kind |-> "intro", targetId |-> null, index |-> 0],
     suspectIntroSeen |-> [s \in Range(SUSPECTS) |-> FALSE],
     unlockedTopicsBySuspect |-> [s \in Range(SUSPECTS) |-> {}],
     cortexHintsEnabled |-> TRUE,
     accusation |-> [suspectId |-> null, motiveId |-> null, evidenceId |-> null],
     endingKey |-> null,
     score |-> [culpritCorrect |-> FALSE,
                motiveCorrect |-> FALSE,
                criticalCluesFound |-> 0,
                criticalCluesTotal |-> Len(CASE_SOLUTION.criticalClueIds)]]

(***************************************************************************)
(* Lookup helpers                                                          *)
(***************************************************************************)
findLocationById(locationId) ==
    IF includes(LOCATIONS, locationId) THEN locationId ELSE undefined

findSuspectById(suspectId) ==
    IF includes(SUSPECTS, suspectId) THEN suspectId ELSE undefined

findMotiveById(motiveId) ==
    IF includes(MOTIVES, motiveId) THEN motiveId ELSE undefined

findClueById(clueId) ==
    IF includes(CLUES, clueId) THEN clueId ELSE undefined

\* Slip: the value is pushed without the membership test
addUniqueToArray_alwaysPushes(arr, value) ==
    [arr |-> Append(arr, value), added |-> TRUE]

\* Slip: the value is compared with the last element only
addUniqueToArray_comparesLast(arr, value) ==
    IF arr = <<>> \/ arr[Len(arr)] # value
    THEN [arr |-> Append(arr, value), added |-> TRUE]
    ELSE [arr |-> arr, added |-> FALSE]

addUniqueToArray(arr, value) ==
    IF ~includes(arr, value)
    THEN [arr |-> Append(arr, value), added |-> TRUE]
    ELSE [arr |-> arr, added |-> FALSE]

(***************************************************************************)
(* Store access                                                            *)
(***************************************************************************)
\* Slip: the reset keeps the ending of the finished run
resetGameState_keepsEnding(s) ==
    [state |-> [createInitialState EXCEPT !.endingKey = s.endingKey],
     ret |-> RetUndefined, warn |-> FALSE]

\* Slip: the reset keeps the player's hints setting
resetGameState_keepsHints(s) ==
    [state |-> [createInitialState EXCEPT !.cortexHintsEnabled = s.cortexHintsEnabled],
     ret |-> RetUndefined, warn |-> FALSE]

resetGameState(s) ==
    [state |-> createInitialState, ret |-> RetUndefined, warn |-> FALSE]

(***************************************************************************)
(* Phase and location                                                      *)
(***************************************************************************)
\* Slip: the phase is stored without the test against GAME_PHASES
setPhase_withoutCheck(s, phase) ==
    LET s1 == [s EXCEPT !.phase = phase]
        s2 == IF phase = GAME_PHASES.INTRO
              THEN [s1 EXCEPT !.dialogueContext =
                       [kind |-> "intro", targetId |-> null, index |-> 0]]
              ELSE s1
    IN [state |-> s2, ret |-> RetUndefined, warn |-> FALSE]

\* Slip: every phase change resets the dialogue to the intro
setPhase_alwaysResetsDialogue(s, phase) ==
    IF phase \notin PhaseValues
    THEN [state |-> s, ret |-> RetUndefined, warn |-> TRUE]
    ELSE [state |-> [s EXCEPT !.phase = phase,
                              !.dialogueContext =
                                  [kind |-> "intro", targetId |-> null, index |-> 0]],
          ret |-> RetUndefined, warn |-> FALSE]

setPhase(s, phase) ==
    IF phase \notin PhaseValues
    THEN [state |-> s, ret |-> RetUndefined, warn |-> TRUE]
    ELSE LET s1 == [s EXCEPT !.phase = phase]
             s2 == IF phase = GAME_PHASES.INTRO
                   THEN [s1 EXCEPT !.dialogueContext =
                            [kind |-> "intro", targetId |-> null, index |-> 0]]
                   ELSE s1
         IN [state |-> s2, ret |-> RetUndefined, warn |-> FALSE]

\* Slip: the previous location is recorded after the current one is overwritten
setCurrentLocation_previousAfterCurrent(s, locationId) ==
    LET location == findLocationById(locationId) IN
    IF location = undefined
    THEN [state |-> s, ret |-> RetUndefined, warn |-> TRUE]
    ELSE LET visit == addUniqueToArray(s.visitedLocationIds, locationId)
             s1 == [s EXCEPT !.previousLocationId = locationId,
                             !.currentLocationId = locationId,
                             !.visitedLocationIds = visit.arr,
                             !.dialogueContext =
                                 [kind |-> "location", targetId |-> locationId, index |-> 0]]
         IN [state |-> s1,
             ret |-> [tag |-> "visit", location |-> location, isFirstVisit |-> visit.added],
             warn |-> FALSE]

\* Slip: a visit also moves the game into the investigation phase
setCurrentLocation_entersInvestigation(s, locationId) ==
    LET location == findLocationById(locationId) IN
    IF location = undefined
    THEN [state |-> s, ret |-> RetUndefined, warn |-> TRUE]
    ELSE LET visit == addUniqueToArray(s.visitedLocationIds, locationId)
             s1 == [s EXCEPT !.phase = GAME_PHASES.INVESTIGATION,
                             !.previousLocationId = s.currentLocationId,
                             !.currentLocationId = locationId,
                             !.visitedLocationIds = visit.arr,
                             !.dialogueContext =
                                 [kind |-> "location", targetId |-> locationId, index |-> 0]]
         IN [state |-> s1,
             ret |-> [tag |-> "visit", location |-> location, isFirstVisit |-> visit.added],
             warn |-> FALSE]

\* Slip: the id is not looked up in the catalog before it is recorded
setCurrentLocation_withoutLookup(s, locationId) ==
    LET visit == addUniqueToArray(s.visitedLocationIds, locationId)
        s1 == [s EXCEPT !.previousLocationId = s.currentLocationId,
                        !.currentLocationId = locationId,
                        !.visitedLocationIds = visit.arr,
                        !.dialogueContext =
                            [kind |-> "location", targetId |-> locationId, index |-> 0]]
    IN [state |-> s1,
        ret |-> [tag |-> "visit", location |-> locationId, isFirstVisit |-> visit.added],
        warn |-> FALSE]

\* Slip: the visit is not added to visitedLocationIds
setCurrentLocation_forgetsVisit(s, locationId) ==
    LET location == findLocationById(locationId) IN
    IF location = undefined
    THEN [state |-> s, ret |-> RetUndefined, warn |-> TRUE]
    ELSE LET visit == addUniqueToArray(s.visitedLocationIds, locationId)
             s1 == [s EXCEPT !.previousLocationId = s.currentLocationId,
                             !.currentLocationId = locationId,
                             !.dialogueContext =
                                 [kind |-> "location", targetId |-> locationId, index |-> 0]]
         IN [state |-> s1,
             ret |-> [tag |-> "visit", location |-> location, isFirstVisit |-> visit.added],
             warn |-> FALSE]

setCurrentLocation(s, locationId) ==
    LET location == findLocationById(locationId) IN
    IF location = undefined
    THEN [state |-> s, ret |-> RetUndefined, warn |-> TRUE]
    ELSE LET visit == addUniqueToArray(s.visitedLocationIds, locationId)
             s1 == [s EXCEPT !.previousLocationId = s.currentLocationId,
                             !.currentLocationId = locationId,
                             !.visitedLocationIds = visit.arr,
                             !.dialogueContext =
                                 [kind |-> "location", targetId |-> locationId, index |-> 0]]
         IN [state |-> s1,
             ret |-> [tag |-> "visit", location |-> location, isFirstVisit |-> visit.added],
             warn |-> FALSE]

hasVisitedLocation(s, locationId) == includes(s.visitedLocationIds, locationId)

(***************************************************************************)
(* Clues                                                                   *)
(***************************************************************************)
\* Slip: the clue is returned whether or not it was newly added
discoverClue_returnsKnownClue(s, clueId) ==
    LET clue == findClueById(clueId) IN
    IF clue = undefined
    THEN [state |-> s, ret |-> RetNull, warn |-> TRUE]
    ELSE LET r == addUniqueToArray(s.discoveredClueIds, clueId)
         IN [state |-> [s EXCEPT !.discoveredClueIds = r.arr],
             ret |-> RetClue(clue),
             warn |-> FALSE]

\* Slip: the id is recorded without the catalog lookup
discoverClue_withoutLookup(s, clueId) ==
    LET r == addUniqueToArray(s.discoveredClueIds, clueId)
    IN [state |-> [s EXCEPT !.discoveredClueIds = r.arr],
        ret |-> IF r.added THEN RetClue(clueId) ELSE RetNull,
        warn |-> FALSE]

discoverClue(s, clueId) ==
    LET clue == findClueById(clueId) IN
    IF clue = undefined
    THEN [state |-> s, ret |-> RetNull, warn |-> TRUE]
    ELSE LET r == addUniqueToArray(s.discoveredClueIds, clueId)
         IN [state |-> [s EXCEPT !.discoveredClueIds = r.arr],
             ret |-> IF r.added THEN RetClue(clue) ELSE RetNull,
             warn |-> FALSE]

hasClue(s, clueId) == includes(s.discoveredClueIds, clueId)

\* Slip: the clues are listed in catalog order
getDiscoveredClues_catalogOrder(s) == filter(CLUES, Range(s.discoveredClueIds))

getDiscoveredClues(s) == filter(s.discoveredClueIds, Range(CLUES))

\* Slip: the last remaining critical clue is taken instead of the first
revealNextCriticalClue_takesLast(s) ==
    LET remaining == filter(CASE_SOLUTION.criticalClueIds,
                            Range(CASE_SOLUTION.criticalClueIds) \ Range(s.discoveredClueIds))
    IN IF Len(remaining) = 0
       THEN [state |-> s, ret |-> RetNull, warn |-> FALSE]
       ELSE discoverClue(s, remaining[Len(remaining)])

revealNextCriticalClue(s) ==
    LET remaining == filter(CASE_SOLUTION.criticalClueIds,
                            Range(CASE_SOLUTION.criticalClueIds) \ Range(s.discoveredClueIds))
    IN IF Len(remaining) = 0
       THEN [state |-> s, ret |-> RetNull, warn |-> FALSE]
       ELSE discoverClue(s, remaining[1])

(***************************************************************************)
(* Suspects and topics                                                     *)
(***************************************************************************)
markSuspectIntroSeen(s, suspectId) ==
    IF suspectId \notin DOMAIN s.suspectIntroSeen
    THEN [state |-> s, ret |-> RetUndefined, warn |-> TRUE]
    ELSE [state |-> [s EXCEPT !.suspectIntroSeen[suspectId] = TRUE],
          ret |-> RetUndefined, warn |-> FALSE]

isSuspectIntroSeen(s, suspectId) ==
    suspectId \in DOMAIN s.suspectIntroSeen /\ s.suspectIntroSeen[suspectId]

\* An inherited member is truthy and has no add method: the call throws
unlockSuspectTopic(s, suspectId, topicId) ==
    IF suspectId \in DOMAIN ObjectPrototype
    THEN [state |-> s, ret |-> RetThrow("TypeError"), warn |-> FALSE]
    ELSE IF suspectId \notin DOMAIN s.unlockedTopicsBySuspect
    THEN [state |-> s, ret |-> RetUndefined, warn |-> TRUE]
    ELSE [state |-> [s EXCEPT !.unlockedTopicsBySuspect[suspectId] = @ \cup {topicId}],
          ret |-> RetUndefined, warn |-> FALSE]

getUnlockedTopicsForSuspect(s, suspectId) ==
    IF suspectId \notin DOMAIN s.unlockedTopicsBySuspect
    THEN {}
    ELSE s.unlockedTopicsBySuspect[suspectId]

(***************************************************************************)
(* Lab actions                                                             *)
(***************************************************************************)
\* Slip: the set is created anew on every call
markLabActionUsed_replacesSet(s, actionId) ==
    [state |-> [s EXCEPT !.labActionsUsed = {actionId}],
     ret |-> RetUndefined, warn |-> FALSE]

markLabActionUsed(s, actionId) ==
    [state |-> [s EXCEPT !.labActionsUsed = @ \cup {actionId}],
     ret |-> RetUndefined, warn |-> FALSE]

isLabActionUsed(s, actionId) == actionId \in s.labActionsUsed

(***************************************************************************)
(* Branching flags                                                         *)
(***************************************************************************)
setFlag(s, flagName, value) ==
    [state |-> [s EXCEPT !.flags =
                    [n \in DOMAIN s.flags \cup {flagName} |->
                        IF n = flagName THEN value ELSE s.flags[n]]],
     ret |-> RetUndefined, warn |-> FALSE]

\* flags is a plain object: a name that was not set reads the member of
\* that name inherited from Object.prototype, a function, which !! turns
\* into true
getFlag(s, flagName) ==
    IF flagName \in DOMAIN s.flags
    THEN s.flags[flagName]
    ELSE flagName \in DOMAIN ObjectPrototype

clearFlag(s, flagName) ==
    [state |-> [s EXCEPT !.flags = [n \in DOMAIN s.flags \ {flagName} |-> s.flags[n]]],
     ret |-> RetUndefined, warn |-> FALSE]

(***************************************************************************)
(* Dialogue context                                                        *)
(***************************************************************************)
\* The value the switch in advanceDialogueIndex leaves in dialogueArray for
\* a context: found is FALSE where the function warns and returns "end";
\* lines holds one element per index below dialogueArray.length, and is
\* empty for a value without a length (the intro property of an inherited
\* function is undefined).
dialogueArray(ctx) ==
    CASE ctx.kind = "intro" -> [found |-> TRUE, lines |-> INTRO_DIALOGUE]
      [] ctx.kind = "location" ->
            IF ctx.targetId \in DOMAIN LOCATION_DIALOGUE
            THEN [found |-> TRUE, lines |-> LOCATION_DIALOGUE[ctx.targetId].intro]
            ELSE IF ctx.targetId \in DOMAIN ObjectPrototype
            THEN [found |-> TRUE, lines |-> <<>>]
            ELSE [found |-> FALSE, lines |-> <<>>]
      [] ctx.kind = "suspect" ->
            IF ctx.targetId \in DOMAIN SUSPECT_DIALOGUE
            THEN [found |-> TRUE, lines |-> SUSPECT_DIALOGUE[ctx.targetId].intro]
            ELSE IF ctx.targetId \in DOMAIN ObjectPrototype
            THEN [found |-> TRUE, lines |-> <<>>]
            ELSE [found |-> FALSE, lines |-> <<>>]
      [] ctx.kind = "ending" ->
            IF ctx.targetId \in DOMAIN ENDINGS
            THEN [found |-> TRUE, lines |-> ENDINGS[ctx.targetId]]
            ELSE IF ctx.targetId \in DOMAIN ObjectPrototype
            THEN [found |-> TRUE,
                  lines |-> [i \in 1..ObjectPrototype[ctx.targetId] |-> undefined]]
            ELSE [found |-> FALSE, lines |-> <<>>]
      [] OTHER -> [found |-> FALSE, lines |-> <<>>]

\* Slip: the bound test admits the index one past the last line
advanceDialogueIndex_pastLastLine(s) ==
    LET ctx == s.dialogueContext
        arr == dialogueArray(ctx)
    IN IF ~arr.found
       THEN [state |-> s, ret |-> RetString("end"), warn |-> TRUE]
       ELSE IF Len(arr.lines) = 0
       THEN [state |-> s, ret |-> RetString("end"), warn |-> FALSE]
       ELSE LET nextIndex == ctx.index + 1 IN
            IF nextIndex <= Len(arr.lines)
            THEN [state |-> [s EXCEPT !.dialogueContext.index = nextIndex],
                  ret |-> RetString("continue"), warn |-> FALSE]
            ELSE [state |-> s, ret |-> RetString("end"), warn |-> FALSE]

\* Slip: at the last line the cursor goes back to the first line
advanceDialogueIndex_rewindsAtEnd(s) ==
    LET ctx == s.dialogueContext
        arr == dialogueArray(ctx)
    IN IF ~arr.found
       THEN [state |-> s, ret |-> RetString("end"), warn |-> TRUE]
       ELSE IF Len(arr.lines) = 0
       THEN [state |-> s, ret |-> RetString("end"), warn |-> FALSE]
       ELSE LET nextIndex == ctx.index + 1 IN
            IF nextIndex < Len(arr.lines)
            THEN [state |-> [s EXCEPT !.dialogueContext.index = nextIndex],
                  ret |-> RetString("continue"), warn |-> FALSE]
            ELSE [state |-> [s EXCEPT !.dialogueContext.index = 0],
                  ret |-> RetString("end"), warn |-> FALSE]

advanceDialogueIndex(s) ==
    LET ctx == s.dialogueContext
        arr == dialogueArray(ctx)
    IN IF ~arr.found
       THEN [state |-> s, ret |-> RetString("end"), warn |-> TRUE]
       ELSE IF Len(arr.lines) = 0
       THEN [state |-> s, ret |-> RetString("end"), warn |-> FALSE]
       ELSE LET nextIndex == ctx.index + 1 IN
            IF nextIndex < Len(arr.lines)
            THEN [state |-> [s EXCEPT !.dialogueContext.index = nextIndex],
                  ret |-> RetString("continue"), warn |-> FALSE]
            ELSE [state |-> s, ret |-> RetString("end"), warn |-> FALSE]

setDialogueContext(s, kind, targetId, index) ==
    [state |-> [s EXCEPT !.dialogueContext =
                    [kind |-> kind, targetId |-> targetId, index |-> index]],
     ret |-> RetUndefined, warn |-> FALSE]

(***************************************************************************)
(* CORTEX behaviour                                                        *)
(***************************************************************************)
\* Slip: the value before the flip is returned
toggleCortexHints_returnsOld(s) ==
    [state |-> [s EXCEPT !.cortexHintsEnabled = ~s.cortexHintsEnabled],
     ret |-> RetBoolean(s.cortexHintsEnabled), warn |-> FALSE]

toggleCortexHints(s) ==
    [state |-> [s EXCEPT !.cortexHintsEnabled = ~s.cortexHintsEnabled],
     ret |-> RetBoolean(~s.cortexHintsEnabled), warn |-> FALSE]

(***************************************************************************)
(* Accusation and evaluation                                               *)
(***************************************************************************)
\* Slip: an accusation with an unknown id is dropped after the warning
setAccusation_rejectsUnknown(s, suspectId, motiveId, evidenceId) ==
    LET unknown == \/ (suspectId # null /\ findSuspectById(suspectId) = undefined)
                   \/ (motiveId # null /\ findMotiveById(motiveId) = undefined)
                   \/ (evidenceId # null /\ findClueById(evidenceId) = undefined)
    IN [state |-> IF unknown THEN s
                  ELSE [s EXCEPT !.accusation =
                           [suspectId |-> suspectId, motiveId |-> motiveId,
                            evidenceId |-> evidenceId]],
        ret |-> RetUndefined,
        warn |-> unknown]

setAccusation(s, suspectId, motiveId, evidenceId) ==
    [state |-> [s EXCEPT !.accusation =
                    [suspectId |-> suspectId, motiveId |-> motiveId, evidenceId |-> evidenceId]],
     ret |-> RetUndefined,
     warn |-> \/ (suspectId # null /\ findSuspectById(suspectId) = undefined)
              \/ (motiveId # null /\ findMotiveById(motiveId) = undefined)
              \/ (evidenceId # null /\ findClueById(evidenceId) = undefined)]

\* Slip: the half is rounded down
ceilHalf_roundsDown(n) == n \div 2

\* Math.ceil(n / 2) for a natural number n
ceilHalf(n) == (n + 1) \div 2

\* Slip: the clue threshold alone earns 'close', whoever is accused
endingTier_thresholdAlone(culpritCorrect, motiveCorrect, criticalFoundCount, criticalTotal) ==
    IF culpritCorrect /\ motiveCorrect /\ criticalFoundCount = criticalTotal
    THEN "perfect"
    ELSE IF (culpritCorrect /\ motiveCorrect) \/ criticalFoundCount >= (criticalTotal + 1) \div 2
    THEN "close"
    ELSE "wrong"

\* Slip: the clue threshold is tested with === instead of >=
endingTier_exactThreshold(culpritCorrect, motiveCorrect, criticalFoundCount, criticalTotal) ==
    IF culpritCorrect /\ motiveCorrect /\ criticalFoundCount = criticalTotal
    THEN "perfect"
    ELSE IF culpritCorrect /\ (motiveCorrect \/ criticalFoundCount = ceilHalf(criticalTotal))
    THEN "close"
    ELSE "wrong"

\* The tier decision of evaluateAccusation
endingTier(culpritCorrect, motiveCorrect, criticalFoundCount, criticalTotal) ==
    IF culpritCorrect /\ motiveCorrect /\ criticalFoundCount = criticalTotal
    THEN "perfect"
    ELSE IF culpritCorrect /\ (motiveCorrect \/ criticalFoundCount >= ceilHalf(criticalTotal))
    THEN "close"
    ELSE "wrong"

\* The score and the tier of evaluateAccusation
\* Slip: the total counts the clues discovered instead of the critical clues
evaluated_totalOfDiscovered(s) ==
    LET suspectId == s.accusation.suspectId
        motiveId == s.accusation.motiveId
        culpritCorrect == suspectId = CASE_SOLUTION.culpritId
        motiveCorrect == motiveId = CASE_SOLUTION.motiveId
        criticalFoundCount ==
            Len(filter(CASE_SOLUTION.criticalClueIds, Range(s.discoveredClueIds)))
        criticalTotal == Len(s.discoveredClueIds)
    IN [endingKey |-> endingTier(culpritCorrect, motiveCorrect, criticalFoundCount, criticalTotal),
        score |-> [culpritCorrect |-> culpritCorrect,
                   motiveCorrect |-> motiveCorrect,
                   criticalCluesFound |-> criticalFoundCount,
                   criticalCluesTotal |-> criticalTotal]]

evaluated(s) ==
    LET suspectId == s.accusation.suspectId
        motiveId == s.accusation.motiveId
        culpritCorrect == suspectId = CASE_SOLUTION.culpritId
        motiveCorrect == motiveId = CASE_SOLUTION.motiveId
        criticalFoundCount ==
            Len(filter(CASE_SOLUTION.criticalClueIds, Range(s.discoveredClueIds)))
        criticalTotal == Len(CASE_SOLUTION.criticalClueIds)
    IN [endingKey |-> endingTier(culpritCorrect, motiveCorrect, criticalFoundCount, criticalTotal),
        score |-> [culpritCorrect |-> culpritCorrect,
                   motiveCorrect |-> motiveCorrect,
                   criticalCluesFound |-> criticalFoundCount,
                   criticalCluesTotal |-> criticalTotal]]

\* Slip: the phase is left as it was
evaluateAccusation_keepsPhase(s) ==
    LET e == evaluated(s)
    IN [state |-> [s EXCEPT !.score = e.score,
                            !.endingKey = e.endingKey,
                            !.dialogueContext =
                                [kind |-> "ending", targetId |-> e.endingKey, index |-> 0]],
        ret |-> [tag |-> "eval", score |-> e.score, endingKey |-> e.endingKey],
        warn |-> FALSE]

\* Slip: the accusation is cleared once it has been scored
evaluateAccusation_clearsAccusation(s) ==
    LET e == evaluated(s)
    IN [state |-> [s EXCEPT !.score = e.score,
                            !.endingKey = e.endingKey,
                            !.phase = GAME_PHASES.ENDING,
                            !.accusation =
                                [suspectId |-> null, motiveId |-> null, evidenceId |-> null],
                            !.dialogueContext =
                                [kind |-> "ending", targetId |-> e.endingKey, index |-> 0]],
        ret |-> [tag |-> "eval", score |-> e.score, endingKey |-> e.endingKey],
        warn |-> FALSE]

\* Slip: a run that is already in the ending phase is not scored again
evaluateAccusation_endingIsFinal(s) ==
    LET e == IF s.phase = GAME_PHASES.ENDING
             THEN [endingKey |-> s.endingKey, score |-> s.score]
             ELSE evaluated(s)
    IN [state |-> [s EXCEPT !.score = e.score,
                            !.endingKey = e.endingKey,
                            !.phase = GAME_PHASES.ENDING,
                            !.dialogueContext =
                                [kind |-> "ending", targetId |-> e.endingKey, index |-> 0]],
        ret |-> [tag |-> "eval", score |-> e.score, endingKey |-> e.endingKey],
        warn |-> FALSE]

\* Slip: the ending context keeps the index of the context it replaces
evaluateAccusation_keepsIndex(s) ==
    LET e == evaluated(s)
    IN [state |-> [s EXCEPT !.score = e.score,
                            !.endingKey = e.endingKey,
                            !.phase = GAME_PHASES.ENDING,
                            !.dialogueContext =
                                [kind |-> "ending", targetId |-> e.endingKey,
                                 index |-> s.dialogueContext.index]],
        ret |-> [tag |-> "eval", score |-> e.score, endingKey |-> e.endingKey],
        warn |-> FALSE]

\* Slip: the score of the evaluation is not stored
evaluateAccusation_keepsScore(s) ==
    LET e == evaluated(s)
    IN [state |-> [s EXCEPT !.endingKey = e.endingKey,
                            !.phase = GAME_PHASES.ENDING,
                            !.dialogueContext =
                                [kind |-> "ending", targetId |-> e.endingKey, index |-> 0]],
        ret |-> [tag |-> "eval", score |-> e.score, endingKey |-> e.endingKey],
        warn |-> FALSE]

evaluateAccusation(s) ==
    LET e == evaluated(s)
    IN [state |-> [s EXCEPT !.score = e.score,
                            !.endingKey = e.endingKey,
                            !.phase = GAME_PHASES.ENDING,
                            !.dialogueContext =
                                [kind |-> "ending", targetId |-> e.endingKey, index |-> 0]],
        ret |-> [tag |-> "eval", score |-> e.score, endingKey |-> e.endingKey],
        warn |-> FALSE]

(***************************************************************************)
(* Bounds and input sets                                                   *)
(***************************************************************************)
\* Non-critical clues (in catalog order) that discoverClue is called with
MaxNonCritical == 1
\* Longest discovered-clue sequence taken in every order when evaluating
MaxPermLen == 3
\* Calls per behaviour of Spec, where every exported mutator may be called
MaxOps == 3
\* Consecutive advanceDialogueIndex calls on one placed dialogue context
MaxAdvances == 6

\* Number of repeated submissions of the correct accusation that are followed
MaxSubmissions == 7

NonCriticalClues == filter(CLUES, Range(CLUES) \ Range(CASE_SOLUTION.criticalClueIds))

ClueInputs ==
    Range(CASE_SOLUTION.criticalClueIds)
        \cup {NonCriticalClues[i] : i \in 1..MaxNonCritical}
        \cup {"unknown_clue"}

LocationInputs == Range(LOCATIONS) \cup {"unknown_location"}

PhaseInputs == PhaseValues \cup {"unknown_phase"}

SuspectInputs == {"rhea", "milo", "unknown_suspect", "hasOwnProperty"}

TopicInputs == {"alibi"}

LabActionInputs == {"lab_deep_scan"}

FlagInputs == {"lab_forbidden_scan_used"}

\* Arguments of setDialogueContext: a suspect's script, the last line of an
\* ending, an index past the end of the intro, and contexts without a
\* script: an unknown kind, ids outside the tables, inherited member names
DialogueContextInputs ==
    {<<"suspect", "rhea", 0>>, <<"ending", "perfect", 1>>, <<"intro", null, 7>>,
     <<"topic", "rhea", 0>>,
     <<"location", "unknown_location", 0>>, <<"suspect", "unknown_suspect", 0>>,
     <<"ending", "unknown_ending", 0>>,
     <<"location", "hasOwnProperty", 0>>, <<"ending", "toString", 0>>,
     <<"ending", "hasOwnProperty", -1>>, <<"ending", "__defineGetter__", 0>>}

\* The contexts that have a script: the intro, each location, each suspect,
\* each ending
ScriptContexts ==
    {<<"intro", null>>}
        \cup {<<"location", l>> : l \in DOMAIN LOCATION_DIALOGUE}
        \cup {<<"suspect", su>> : su \in DOMAIN SUSPECT_DIALOGUE}
        \cup {<<"ending", e>> : e \in DOMAIN ENDINGS}

\* Flag names: the flag the ending screen reads, another name, and the name
\* of an inherited member
FlagNames == {"lab_forbidden_scan_used", "intro_skipped", "toString"}

\* Ids of lab actions
LabActionIds == {"lab_deep_scan", "lab_forbidden_scan"}

\* Arguments of hasClue: a catalog clue and an id outside the catalog
HasClueInputs == {"locked_office", "unknown_clue"}

\* Arguments of setAccusation: the form's values, and ids outside the catalog
AccusationInputs ==
    {<<su, mo, null>> : su \in {"rhea", "milo", null, "unknown_suspect"},
                        mo \in {"coverup", "greed", null}}
        \cup {<<"rhea", "unknown_motive", null>>,
              <<"rhea", "coverup", "locked_office">>,
              <<"rhea", "coverup", "unknown_clue">>}

(***************************************************************************)
(* Calls of the exported functions on the live state                       *)
(*                                                                         *)
(* An action is one call.  Under Spec the calls are counted and a          *)
(* behaviour makes at most MaxOps of them; the other specifications leave  *)
(* the counter alone.                                                      *)
(***************************************************************************)
Apply(op, args, r) ==
    /\ currentState' = r.state
    /\ ret' = r.ret
    /\ warned' = r.warn
    /\ lastOp' = [op |-> op, args |-> args,
                  again |-> lastOp.op = op /\ lastOp.args = args]
    /\ UNCHANGED <<feed, form>>

Counted(counted) ==
    IF counted THEN calls < MaxOps /\ calls' = calls + 1 ELSE UNCHANGED calls

Init ==
    /\ currentState = createInitialState
    /\ ret = RetUndefined
    /\ warned = FALSE
    /\ lastOp = [op |-> "createInitialState", args |-> <<>>, again |-> FALSE]
    /\ calls = 0
    /\ feed = <<>>
    /\ form = blankForm

ResetGameState(counted) ==
    /\ Counted(counted)
    /\ Apply("resetGameState", <<>>, resetGameState(currentState))

SetPhase(counted) ==
    /\ Counted(counted)
    /\ \E phase \in PhaseInputs :
          Apply("setPhase", <<phase>>, setPhase(currentState, phase))

SetCurrentLocation(counted) ==
    /\ Counted(counted)
    /\ \E locationId \in LocationInputs :
          Apply("setCurrentLocation", <<locationId>>,
                setCurrentLocation(currentState, locationId))

DiscoverClue(counted) ==
    /\ Counted(counted)
    /\ \E clueId \in ClueInputs :
          Apply("discoverClue", <<clueId>>, discoverClue(currentState, clueId))

RevealNextCriticalClue(counted) ==
    /\ Counted(counted)
    /\ Apply("revealNextCriticalClue", <<>>, revealNextCriticalClue(currentState))

MarkSuspectIntroSeen(counted) ==
    /\ Counted(counted)
    /\ \E suspectId \in SuspectInputs :
          Apply("markSuspectIntroSeen", <<suspectId>>,
                markSuspectIntroSeen(currentState, suspectId))

UnlockSuspectTopic(counted) ==
    /\ Counted(counted)
    /\ \E suspectId \in SuspectInputs, topicId \in TopicInputs :
          Apply("unlockSuspectTopic", <<suspectId, topicId>>,
                unlockSuspectTopic(currentState, suspectId, topicId))

MarkLabActionUsed(counted) ==
    /\ Counted(counted)
    /\ \E actionId \in LabActionInputs :
          Apply("markLabActionUsed", <<actionId>>, markLabActionUsed(currentState, actionId))

SetFlag(counted) ==
    /\ Counted(counted)
    /\ \E flagName \in FlagInputs, value \in BOOLEAN :
          Apply("setFlag", <<flagName, value>>, setFlag(currentState, flagName, value))

ClearFlag(counted) ==
    /\ Counted(counted)
    /\ \E flagName \in FlagInputs :
          Apply("clearFlag", <<flagName>>, clearFlag(currentState, flagName))

AdvanceDialogueIndex(counted) ==
    /\ Counted(counted)
    /\ Apply("advanceDialogueIndex", <<>>, advanceDialogueIndex(currentState))

SetDialogueContext(counted) ==
    /\ Counted(counted)
    /\ \E a \in DialogueContextInputs :
          Apply("setDialogueContext", a, setDialogueContext(currentState, a[1], a[2], a[3]))

ToggleCortexHints(counted) ==
    /\ Counted(counted)
    /\ Apply("toggleCortexHints", <<>>, toggleCortexHints(currentState))

SetAccusation(counted) ==
    /\ Counted(counted)
    /\ \E a \in AccusationInputs :
          Apply("setAccusation", a, setAccusation(currentState, a[1], a[2], a[3]))

EvaluateAccusation(counted) ==
    /\ Counted(counted)
    /\ Apply("evaluateAccusation", <<>>, evaluateAccusation(currentState))

(***************************************************************************)
(* Spec: every exported mutator, in any order, MaxOps calls                *)
(***************************************************************************)
Next ==
    \/ ResetGameState(TRUE)
    \/ SetPhase(TRUE)
    \/ SetCurrentLocation(TRUE)
    \/ DiscoverClue(TRUE)
    \/ RevealNextCriticalClue(TRUE)
    \/ MarkSuspectIntroSeen(TRUE)
    \/ UnlockSuspectTopic(TRUE)
    \/ MarkLabActionUsed(TRUE)
    \/ SetFlag(TRUE)
    \/ ClearFlag(TRUE)
    \/ AdvanceDialogueIndex(TRUE)
    \/ SetDialogueContext(TRUE)
    \/ ToggleCortexHints(TRUE)
    \/ SetAccusation(TRUE)
    \/ EvaluateAccusation(TRUE)

Spec == Init /\ [][Next]_vars

(***************************************************************************)
(* SpecClues: the clue mutators interleaved with another mutator, called   *)
(* in any order without a limit                                            *)
(***************************************************************************)
NextClues ==
    \/ DiscoverClue(FALSE)
    \/ RevealNextCriticalClue(FALSE)
    \/ ToggleCortexHints(FALSE)
    \/ ResetGameState(FALSE)

SpecClues == Init /\ [][NextClues]_vars

(***************************************************************************)
(* SpecVisit: location visits interleaved with other mutators, without a   *)
(* limit                                                                   *)
(***************************************************************************)
NextVisit ==
    \/ SetCurrentLocation(FALSE)
    \/ AdvanceDialogueIndex(FALSE)
    \/ SetPhase(FALSE)
    \/ ToggleCortexHints(FALSE)
    \/ ResetGameState(FALSE)

SpecVisit == Init /\ [][NextVisit]_vars

(***************************************************************************)
(* SpecDialogue: dialogue contexts placed at index 0 and read line by      *)
(* line.  Here calls counts the advanceDialogueIndex calls made since the  *)
(* context was placed: every call that writes dialogueContext with index 0 *)
(* sets it back to 0, and at most MaxAdvances advances follow one          *)
(* placement.                                                              *)
(***************************************************************************)
Placed(op, args, r) ==
    /\ calls' = 0
    /\ Apply(op, args, r)

\* resetGameState and setPhase(intro) place the intro
PlaceByReset ==
    Placed("resetGameState", <<>>, resetGameState(currentState))

PlaceByPhase ==
    Placed("setPhase", <<GAME_PHASES.INTRO>>, setPhase(currentState, GAME_PHASES.INTRO))

\* setCurrentLocation places the location's script
PlaceByVisit ==
    \E locationId \in Range(LOCATIONS) :
        Placed("setCurrentLocation", <<locationId>>,
               setCurrentLocation(currentState, locationId))

\* evaluateAccusation places the script of the ending it decides
PlaceByEvaluation ==
    Placed("evaluateAccusation", <<>>, evaluateAccusation(currentState))

\* setDialogueContext places any script
PlaceByContext ==
    \E c \in ScriptContexts :
        Placed("setDialogueContext", <<c[1], c[2], 0>>,
               setDialogueContext(currentState, c[1], c[2], 0))

AdvanceLine ==
    /\ calls < MaxAdvances
    /\ calls' = calls + 1
    /\ Apply("advanceDialogueIndex", <<>>, advanceDialogueIndex(currentState))

NextDialogue ==
    \/ PlaceByReset
    \/ PlaceByPhase
    \/ PlaceByVisit
    \/ PlaceByEvaluation
    \/ PlaceByContext
    \/ AdvanceLine

SpecDialogue == Init /\ [][NextDialogue]_vars

(***************************************************************************)
(* SpecNotebook: the clue mutators and the clue queries, in any order      *)
(* without a limit                                                         *)
(***************************************************************************)
\* A list of clue objects, as returned by getDiscoveredClues
RetClues(ids) == [tag |-> "clues", ids |-> ids]

\* The queries read currentState and assign nothing
GetDiscoveredClues ==
    /\ UNCHANGED calls
    /\ Apply("getDiscoveredClues", <<>>,
             [state |-> currentState,
              ret |-> RetClues(getDiscoveredClues(currentState)),
              warn |-> FALSE])

HasClue ==
    /\ UNCHANGED calls
    /\ \E clueId \in HasClueInputs :
          Apply("hasClue", <<clueId>>,
                [state |-> currentState,
                 ret |-> RetBoolean(hasClue(currentState, clueId)),
                 warn |-> FALSE])

NextNotebook ==
    \/ DiscoverClue(FALSE)
    \/ RevealNextCriticalClue(FALSE)
    \/ ResetGameState(FALSE)
    \/ GetDiscoveredClues
    \/ HasClue

SpecNotebook == Init /\ [][NextNotebook]_vars

(***************************************************************************)
(* SpecFlags: the flag and lab-action functions over several names,        *)
(* interleaved with other mutators, without a limit                        *)
(***************************************************************************)
\* setFlag(flagName) takes the default value = true
SetNamedFlag ==
    /\ UNCHANGED calls
    /\ \E flagName \in FlagNames :
          \/ Apply("setFlag", <<flagName>>, setFlag(currentState, flagName, TRUE))
          \/ \E value \in BOOLEAN :
                Apply("setFlag", <<flagName, value>>, setFlag(currentState, flagName, value))

ClearNamedFlag ==
    /\ UNCHANGED calls
    /\ \E flagName \in FlagNames :
          Apply("clearFlag", <<flagName>>, clearFlag(currentState, flagName))

GetFlag ==
    /\ UNCHANGED calls
    /\ \E flagName \in FlagNames :
          Apply("getFlag", <<flagName>>,
                [state |-> currentState,
                 ret |-> RetBoolean(getFlag(currentState, flagName)),
                 warn |-> FALSE])

MarkLabAction ==
    /\ UNCHANGED calls
    /\ \E actionId \in LabActionIds :
          Apply("markLabActionUsed", <<actionId>>, markLabActionUsed(currentState, actionId))

IsLabActionUsed ==
    /\ UNCHANGED calls
    /\ \E actionId \in LabActionIds :
          Apply("isLabActionUsed", <<actionId>>,
                [state |-> currentState,
                 ret |-> RetBoolean(isLabActionUsed(currentState, actionId)),
                 warn |-> FALSE])

NextFlags ==
    \/ SetNamedFlag
    \/ ClearNamedFlag
    \/ GetFlag
    \/ MarkLabAction
    \/ IsLabActionUsed
    \/ ResetGameState(FALSE)
    \/ ToggleCortexHints(FALSE)
    \/ EvaluateAccusation(FALSE)

SpecFlags == Init /\ [][NextFlags]_vars

(***************************************************************************)
(* SpecEval: evaluateAccusation applied to prepared states                 *)
(*                                                                         *)
(* A prepared state is reached from the initial state by calls of the      *)
(* mutators: a course of play that ends in the given phase, then the       *)
(* discovery of the given clues in the given order, then setAccusation.    *)
(***************************************************************************)
RECURSIVE discoverAll(_, _)
discoverAll(s, clueIds) ==
    IF clueIds = <<>> THEN s
    ELSE discoverAll(discoverClue(s, Head(clueIds)).state, Tail(clueIds))

\* A state in the middle of a run: two locations visited, one dialogue line
\* advanced, hints muted, a flag and a lab action set and a first accusation
\* (right culprit, wrong motive, no clues) already evaluated.
PlayedState ==
    LET s1 == setPhase(createInitialState, GAME_PHASES.INVESTIGATION).state
        s2 == setCurrentLocation(s1, "lab").state
        s3 == setCurrentLocation(s2, "rooftop").state
        s4 == advanceDialogueIndex(s3).state
        s5 == toggleCortexHints(s4).state
        s6 == setFlag(s5, "lab_forbidden_scan_used", TRUE).state
        s7 == markLabActionUsed(s6, "lab_deep_scan").state
        s8 == markSuspectIntroSeen(s7, "milo").state
        s9 == setAccusation(s8, "rhea", "greed", null).state
    IN evaluateAccusation(s9).state

\* The state a run is in when it is in the given phase.
StateInPhase(phase) ==
    IF phase = GAME_PHASES.INTRO
    THEN createInitialState
    ELSE setPhase(PlayedState, phase).state

\* Sequences over S without repetition, of length at most n
DistinctSeqs(S, n) ==
    {q \in UNION {[1..k -> S] : k \in 0..n} :
        \A i, j \in DOMAIN q : i # j => q[i] # q[j]}

\* Every set of catalog clues in catalog order, and every short sequence of
\* catalog clues in every order
EvalClueSeqs ==
    {filter(CLUES, K) : K \in SUBSET Range(CLUES)}
        \cup DistinctSeqs(Range(CLUES), MaxPermLen)

AccusedSuspects == Range(SUSPECTS) \cup {null}

AccusedMotives == Range(MOTIVES) \cup {null}

\* The key evidence of the form: one of the discovered clues, or none
KeyEvidence(clueIds) == IF clueIds = <<>> THEN null ELSE clueIds[1]

PreparedState(phase, clueIds, suspectId, motiveId) ==
    setAccusation(discoverAll(StateInPhase(phase), clueIds),
                  suspectId, motiveId, KeyEvidence(clueIds)).state

InitEval ==
    /\ \E phase \in PhaseValues, clueIds \in EvalClueSeqs,
          suspectId \in AccusedSuspects, motiveId \in AccusedMotives :
          /\ currentState = PreparedState(phase, clueIds, suspectId, motiveId)
          /\ lastOp = [op |-> "setAccusation",
                       args |-> <<suspectId, motiveId, KeyEvidence(clueIds)>>,
                       again |-> FALSE]
    /\ ret = RetUndefined
    /\ warned = FALSE
    /\ calls = 0
    /\ feed = <<>>
    /\ form = blankForm

NextEval == EvaluateAccusation(FALSE)

SpecEval == InitEval /\ [][NextEval]_vars

(***************************************************************************)
(* Presentation layer (js/ui.js)                                           *)
(***************************************************************************)
\* The line a context points at: script[ctx.index] || null
lineAt(lines, index) ==
    IF index \in 0..(Len(lines) - 1)
    THEN [tag |-> "line", line |-> lines[index + 1]]
    ELSE RetNull

\* Slip: a location already visited shows its repeat lines
getCurrentDialogueLine_repeatOnRevisit(s) ==
    LET ctx == s.dialogueContext IN
    CASE ctx.kind = "intro" -> lineAt(INTRO_DIALOGUE, ctx.index)
      [] ctx.kind = "location" ->
            IF ctx.targetId \in DOMAIN LOCATION_DIALOGUE
            THEN IF includes(s.visitedLocationIds, ctx.targetId)
                 THEN lineAt(LOCATION_DIALOGUE[ctx.targetId].repeat, ctx.index)
                 ELSE lineAt(LOCATION_DIALOGUE[ctx.targetId].intro, ctx.index)
            ELSE IF ctx.targetId \in DOMAIN ObjectPrototype
            THEN RetThrow("TypeError")
            ELSE RetNull
      [] ctx.kind = "suspect" ->
            IF ctx.targetId \in DOMAIN SUSPECT_DIALOGUE
            THEN lineAt(SUSPECT_DIALOGUE[ctx.targetId].intro, ctx.index)
            ELSE IF ctx.targetId \in DOMAIN ObjectPrototype
            THEN RetThrow("TypeError")
            ELSE RetNull
      [] ctx.kind = "ending" ->
            IF ctx.targetId \in DOMAIN ENDINGS
            THEN lineAt(ENDINGS[ctx.targetId], ctx.index)
            ELSE RetNull
      [] OTHER -> RetNull

\* An inherited member of a dialogue table is a function: it passes the
\* !script test, its intro property is undefined (indexing it throws) and
\* its own elements are undefined
getCurrentDialogueLine(s) ==
    LET ctx == s.dialogueContext IN
    CASE ctx.kind = "intro" -> lineAt(INTRO_DIALOGUE, ctx.index)
      [] ctx.kind = "location" ->
            IF ctx.targetId \in DOMAIN LOCATION_DIALOGUE
            THEN lineAt(LOCATION_DIALOGUE[ctx.targetId].intro, ctx.index)
            ELSE IF ctx.targetId \in DOMAIN ObjectPrototype
            THEN RetThrow("TypeError")
            ELSE RetNull
      [] ctx.kind = "suspect" ->
            IF ctx.targetId \in DOMAIN SUSPECT_DIALOGUE
            THEN lineAt(SUSPECT_DIALOGUE[ctx.targetId].intro, ctx.index)
            ELSE IF ctx.targetId \in DOMAIN ObjectPrototype
            THEN RetThrow("TypeError")
            ELSE RetNull
      [] ctx.kind = "ending" ->
            IF ctx.targetId \in DOMAIN ENDINGS
            THEN lineAt(ENDINGS[ctx.targetId], ctx.index)
            ELSE RetNull
      [] OTHER -> RetNull

\* Outcome of renderLocationChoices: DATA.LOCATION_ACTIONS is not among the
\* exports of data.js, so reading its lab property throws
renderLocationChoices(s) ==
    IF \/ s.phase # GAME_PHASES.INVESTIGATION
       \/ s.currentLocationId # "lab"
       \/ s.dialogueContext.kind # "location"
    THEN RetUndefined
    ELSE RetThrow("TypeError")

\* Outcome of renderDialogue (what it writes to the page is not modelled)
renderDialogue(s) ==
    LET line == getCurrentDialogueLine(s) IN
    IF line.tag = "throw" THEN line
    ELSE IF line.tag = "null" THEN RetUndefined
    ELSE IF s.phase # GAME_PHASES.INVESTIGATION THEN RetUndefined
    ELSE IF s.dialogueContext.kind = "location" THEN renderLocationChoices(s)
    ELSE RetUndefined

\* Outcome of renderAll: of the renderers it calls only renderDialogue can
\* throw
renderAll(s) == renderDialogue(s)

\* What assigning v to select.value leaves as the value: v if it is the
\* value of an option, otherwise no option is selected and the value is ""
selectValue(options, v) == IF v \in options THEN v ELSE ""

\* The accusation selects after renderNotebook: each list of options is
\* built anew, which selects its first option (the placeholder ""); then
\* the suspect select is locked or released
renderNotebook(s, f) ==
    LET rebuilt == [suspect |-> [value |-> "", disabled |-> f.suspect.disabled],
                    motive |-> [value |-> ""],
                    evidence |-> [value |-> ""]]
    IN IF /\ s.score.culpritCorrect
          /\ s.score.criticalCluesFound < s.score.criticalCluesTotal
       THEN [rebuilt EXCEPT !.suspect =
                [value |-> selectValue(Range(SUSPECTS) \cup {""},
                                       IF s.accusation.suspectId = null
                                       THEN "" ELSE s.accusation.suspectId),
                 disabled |-> TRUE]]
       ELSE [rebuilt EXCEPT !.suspect.disabled = FALSE]

\* new FormData(form).get(name): a disabled control is left out of the
\* form data, and get returns null for a name that is not in it
formDataGet(f, name) ==
    IF name = "suspect" /\ f.suspect.disabled
    THEN null
    ELSE f[name].value

\* A handler works on a record w = [state, feed, warn]: the game state, the
\* messages appended to the feed so far and whether console.warn was
\* called.  Each message carries, next to its text and severity, the hint
\* setting at the moment it was appended.
addCortexMessage(w, message, severity) ==
    [w EXCEPT !.feed = Append(@, message @@
                                 [severity |-> severity,
                                  hintsEnabled |-> w.state.cortexHintsEnabled])]

(***************************************************************************)
(* Event handlers (js/main.js)                                             *)
(***************************************************************************)
\* The result of a state.js call taken into the handler's record
Called(w, r) == [w EXCEPT !.state = r.state, !.warn = @ \/ r.warn]

\* Slip: the hint setting is not consulted
cortexLog_ignoresHints(w, message, severity) ==
    addCortexMessage(w, message, severity)

cortexLog(w, message, severity) ==
    IF ~w.state.cortexHintsEnabled /\ severity = "normal"
    THEN w
    ELSE addCortexMessage(w, message, severity)

\* Half-up rounding of n/d to an integer (toFixed on a value that is not
\* within a rounding error of a tie)
RoundDiv(n, d) == (2 * n + d) \div (2 * d)

\* Slip: the weights of culprit and motive are exchanged
computeConfidencePercentage_swapsWeights(score) ==
    LET total == IF score.criticalCluesTotal # 0 THEN score.criticalCluesTotal ELSE 1
        found == IF score.criticalCluesTotal # 0 THEN score.criticalCluesFound ELSE 0
        n == ((IF score.culpritCorrect THEN 2 ELSE 0)
              + (IF score.motiveCorrect THEN 6 ELSE 0)) * total + 2 * found
        d == 10 * total
        clamped == IF n > d THEN d ELSE IF n < 0 THEN 0 ELSE n
    IN RoundDiv(clamped * 1000, d)

\* Slip: the clue fraction is added without its weight of 0.2
computeConfidencePercentage_unweightedClues(score) ==
    LET total == IF score.criticalCluesTotal # 0 THEN score.criticalCluesTotal ELSE 1
        found == IF score.criticalCluesTotal # 0 THEN score.criticalCluesFound ELSE 0
        n == ((IF score.culpritCorrect THEN 6 ELSE 0)
              + (IF score.motiveCorrect THEN 2 ELSE 0)) * total + 10 * found
        d == 10 * total
        clamped == IF n > d THEN d ELSE IF n < 0 THEN 0 ELSE n
    IN RoundDiv(clamped * 1000, d)

\* The value is the fraction n/d with d = 10 * total; the result is the
\* number toFixed(1) prints, in tenths of a percent ("68.0" is 680)
computeConfidencePercentage(score) ==
    LET total == IF score.criticalCluesTotal # 0 THEN score.criticalCluesTotal ELSE 1
        found == IF score.criticalCluesTotal # 0 THEN score.criticalCluesFound ELSE 0
        n == ((IF score.culpritCorrect THEN 6 ELSE 0)
              + (IF score.motiveCorrect THEN 2 ELSE 0)) * total + 2 * found
        d == 10 * total
        clamped == IF n > d THEN d ELSE IF n < 0 THEN 0 ELSE n
    IN RoundDiv(clamped * 1000, d)

\* addIfNew of maybeAutoDiscoverCluesAfterLocationChange; a is the record
\* [w, gained]
addIfNew(a, clueId) ==
    IF hasClue(a.w.state, clueId)
    THEN a
    ELSE LET r == discoverClue(a.w.state, clueId) IN
         [w |-> Called(a.w, r),
          gained |-> IF r.ret.tag = "clue" THEN Append(a.gained, r.ret.id) ELSE a.gained]

\* Slip: the second pair of clues waits for the third location
maybeAutoDiscoverCluesAfterLocationChange_lateThreshold(w) ==
    LET visitedCount == Len(w.state.visitedLocationIds)
        a0 == [w |-> w, gained |-> <<>>]
        a1 == IF visitedCount >= 1 THEN addIfNew(a0, "locked_office") ELSE a0
        a2 == IF visitedCount >= 3
              THEN addIfNew(addIfNew(a1, "badge_log_anomaly"), "audit_log_redactions")
              ELSE a1
        a3 == IF visitedCount >= 3
              THEN addIfNew(addIfNew(a2, "rooftop_argument"), "victim_exit_request")
              ELSE a2
    IN a3

maybeAutoDiscoverCluesAfterLocationChange(w) ==
    LET visitedCount == Len(w.state.visitedLocationIds)
        a0 == [w |-> w, gained |-> <<>>]
        a1 == IF visitedCount >= 1 THEN addIfNew(a0, "locked_office") ELSE a0
        a2 == IF visitedCount >= 2
              THEN addIfNew(addIfNew(a1, "badge_log_anomaly"), "audit_log_redactions")
              ELSE a1
        a3 == IF visitedCount >= 3
              THEN addIfNew(addIfNew(a2, "rooftop_argument"), "victim_exit_request")
              ELSE a2
    IN a3

\* newClues.forEach with UI.addCortexMessage (startInvestigation)
RECURSIVE addClueMessages(_, _)
addClueMessages(w, gained) ==
    IF gained = <<>> THEN w
    ELSE addClueMessages(
             addCortexMessage(w, [text |-> "Clue logged", clueId |-> Head(gained)], "normal"),
             Tail(gained))

\* newClues.forEach with cortexLog (goToLocation)
RECURSIVE logClueMessages(_, _)
logClueMessages(w, gained) ==
    IF gained = <<>> THEN w
    ELSE logClueMessages(
             cortexLog(w, [text |-> "Clue logged", clueId |-> Head(gained)], "normal"),
             Tail(gained))

\* What a handler leaves: its record and how it ended
Done(w, outcome) == [state |-> w.state, feed |-> w.feed, warn |-> w.warn, ret |-> outcome]

\* The record a handler starts with
Entered(s) == [state |-> s, feed |-> <<>>, warn |-> FALSE]

\* Slip: the state is not reset first
startInvestigation_keepsProgress(s) ==
    LET w1 == Entered(s)
        w2 == Called(w1, setPhase(w1.state, GAME_PHASES.INVESTIGATION))
        w3 == IF LOCATIONS # <<>>
              THEN LET v == Called(w2, setCurrentLocation(w2.state, LOCATIONS[1]))
                   IN Called(v, setDialogueContext(v.state, "location", LOCATIONS[1], 0))
              ELSE w2
        a == maybeAutoDiscoverCluesAfterLocationChange(w3)
        w4 == addClueMessages(a.w, a.gained)
        w5 == cortexLog(w4, [text |-> "Investigation initialized"], "normal")
    IN Done(w5, renderAll(w5.state))

startInvestigation(s) ==
    LET w1 == Called(Entered(s), resetGameState(s))
        w2 == Called(w1, setPhase(w1.state, GAME_PHASES.INVESTIGATION))
        w3 == IF LOCATIONS # <<>>
              THEN LET v == Called(w2, setCurrentLocation(w2.state, LOCATIONS[1]))
                   IN Called(v, setDialogueContext(v.state, "location", LOCATIONS[1], 0))
              ELSE w2
        a == maybeAutoDiscoverCluesAfterLocationChange(w3)
        w4 == addClueMessages(a.w, a.gained)
        w5 == cortexLog(w4, [text |-> "Investigation initialized"], "normal")
    IN Done(w5, renderAll(w5.state))

goToLocation(s, locationId) ==
    IF locationId \in {null, undefined, ""}
    THEN Done(Entered(s), RetUndefined)
    ELSE LET result == setCurrentLocation(s, locationId)
             w1 == Called(Entered(s), result)
         IN IF result.ret.tag # "visit"
            THEN Done(w1, RetUndefined)
            ELSE LET w2 == IF result.ret.isFirstVisit
                           THEN cortexLog(w1, [text |-> "New location visited",
                                               locationId |-> locationId], "normal")
                           ELSE cortexLog(w1, [text |-> "Revisiting",
                                               locationId |-> locationId], "normal")
                     a == maybeAutoDiscoverCluesAfterLocationChange(w2)
                     w3 == logClueMessages(a.w, a.gained)
                     w4 == Called(w3, setDialogueContext(w3.state, "location", locationId, 0))
                 IN Done(w4, renderAll(w4.state))

restartCase(s) ==
    LET w1 == Called(Entered(s), resetGameState(s))
        w2 == Called(w1, setPhase(w1.state, GAME_PHASES.INTRO))
        w3 == cortexLog(w2, [text |-> "Case reset"], "alert")
    IN Done(w3, renderAll(w3.state))

toggleHints(s) ==
    LET result == toggleCortexHints(s)
        enabled == result.ret.value
        w1 == Called(Entered(s), result)
        w2 == cortexLog(w1,
                        [text |-> IF enabled THEN "CORTEX hints enabled" ELSE "CORTEX hints muted"],
                        IF enabled THEN "normal" ELSE "alert")
    IN Done(w2, renderAll(w2.state))

\* formData.get(name) || null: an empty value and an absent field both
\* give null
formValue(v) == IF v \in {"", null} THEN null ELSE v

\* Slip: the further clue is revealed whatever the ending is
handleAccusationSubmit_revealsAlways(s, suspect, motive, evidence) ==
    LET suspectId == formValue(suspect)
        motiveId == formValue(motive)
        evidenceId == formValue(evidence)
        w1 == Called(Entered(s), setAccusation(s, suspectId, motiveId, evidenceId))
        evaluation == evaluateAccusation(w1.state)
        score == evaluation.ret.score
        endingKey == evaluation.ret.endingKey
        w2 == Called(w1, evaluation)
        confidence == computeConfidencePercentage(score)
        w3 == cortexLog(w2, [text |-> "Accusation recorded", endingKey |-> endingKey],
                        "critical")
        w4 == cortexLog(w3, [text |-> "CORTEX confidence", confidence |-> confidence,
                             score |-> score], "normal")
        w5 == IF score.criticalCluesFound < score.criticalCluesTotal
              THEN LET reveal == revealNextCriticalClue(w4.state)
                       v == Called(w4, reveal)
                   IN IF reveal.ret.tag = "clue"
                      THEN cortexLog(v, [text |-> "Unlocking latent clue",
                                         clueId |-> reveal.ret.id], "normal")
                      ELSE v
              ELSE w4
    IN Done(w5, renderAll(w5.state))

\* Slip: the last missing clue is never revealed
handleAccusationSubmit_stopsShort(s, suspect, motive, evidence) ==
    LET suspectId == formValue(suspect)
        motiveId == formValue(motive)
        evidenceId == formValue(evidence)
        w1 == Called(Entered(s), setAccusation(s, suspectId, motiveId, evidenceId))
        evaluation == evaluateAccusation(w1.state)
        score == evaluation.ret.score
        endingKey == evaluation.ret.endingKey
        w2 == Called(w1, evaluation)
        confidence == computeConfidencePercentage(score)
        w3 == cortexLog(w2, [text |-> "Accusation recorded", endingKey |-> endingKey],
                        "critical")
        w4 == cortexLog(w3, [text |-> "CORTEX confidence", confidence |-> confidence,
                             score |-> score], "normal")
        w5 == IF endingKey = "close" /\ score.criticalCluesFound + 1 < score.criticalCluesTotal
              THEN LET reveal == revealNextCriticalClue(w4.state)
                       v == Called(w4, reveal)
                   IN IF reveal.ret.tag = "clue"
                      THEN cortexLog(v, [text |-> "Unlocking latent clue",
                                         clueId |-> reveal.ret.id], "normal")
                      ELSE v
              ELSE w4
    IN Done(w5, renderAll(w5.state))

handleAccusationSubmit(s, suspect, motive, evidence) ==
    LET suspectId == formValue(suspect)
        motiveId == formValue(motive)
        evidenceId == formValue(evidence)
        w1 == Called(Entered(s), setAccusation(s, suspectId, motiveId, evidenceId))
        evaluation == evaluateAccusation(w1.state)
        score == evaluation.ret.score
        endingKey == evaluation.ret.endingKey
        w2 == Called(w1, evaluation)
        confidence == computeConfidencePercentage(score)
        w3 == cortexLog(w2, [text |-> "Accusation recorded", endingKey |-> endingKey],
                        "critical")
        w4 == cortexLog(w3, [text |-> "CORTEX confidence", confidence |-> confidence,
                             score |-> score], "normal")
        w5 == IF endingKey = "close" /\ score.criticalCluesFound < score.criticalCluesTotal
              THEN LET reveal == revealNextCriticalClue(w4.state)
                       v == Called(w4, reveal)
                   IN IF reveal.ret.tag = "clue"
                      THEN cortexLog(v, [text |-> "Unlocking latent clue",
                                         clueId |-> reveal.ret.id], "normal")
                      ELSE v
              ELSE w4
    IN Done(w5, renderAll(w5.state))

\* bootstrap: the state and the feed when the page has loaded
bootstrap ==
    LET w1 == Called(Entered(createInitialState), resetGameState(createInitialState))
        w2 == Called(w1, setPhase(w1.state, GAME_PHASES.INTRO))
        outcome == renderAll(w2.state)
        w3 == IF outcome.tag = "throw"
              THEN w2
              ELSE cortexLog(w2, [text |-> "CORTEX online"], "normal")
    IN Done(w3, outcome)

(***************************************************************************)
(* The handlers as actions                                                 *)
(***************************************************************************)
\* Values of the accusation form: an id, the empty option, or null for a
\* field the form does not submit
FormSuspects == {"rhea", "milo", ""}

FormMotives == {"coverup", "greed"}

FormEvidence == {"", "locked_office"}

GoToInputs == Range(LOCATIONS) \cup {"unknown_location", ""}

Handled(op, args, r) ==
    /\ currentState' = r.state
    /\ feed' = r.feed
    /\ ret' = r.ret
    /\ warned' = r.warn
    /\ lastOp' = [op |-> op, args |-> args,
                  again |-> lastOp.op = op /\ lastOp.args = args]
    /\ UNCHANGED <<calls, form>>

InitMain ==
    /\ currentState = bootstrap.state
    /\ feed = bootstrap.feed
    /\ ret = bootstrap.ret
    /\ warned = bootstrap.warn
    /\ lastOp = [op |-> "bootstrap", args |-> <<>>, again |-> FALSE]
    /\ calls = 0
    /\ form = blankForm

StartInvestigation == Handled("startInvestigation", <<>>, startInvestigation(currentState))

GoToLocation ==
    \E locationId \in GoToInputs :
        Handled("goToLocation", <<locationId>>, goToLocation(currentState, locationId))

RestartCase == Handled("restartCase", <<>>, restartCase(currentState))

ToggleHints == Handled("toggleHints", <<>>, toggleHints(currentState))

HandleAccusationSubmit ==
    \E suspect \in FormSuspects, motive \in FormMotives, evidence \in FormEvidence :
        Handled("handleAccusationSubmit", <<suspect, motive, evidence>>,
                handleAccusationSubmit(currentState, suspect, motive, evidence))

NextMain ==
    \/ StartInvestigation
    \/ GoToLocation
    \/ RestartCase
    \/ ToggleHints
    \/ HandleAccusationSubmit

SpecMain == InitMain /\ [][NextMain]_vars

(***************************************************************************)
(* Resubmitting the accusation: any handlers first, then the form is       *)
(* submitted again and again with the culprit and the motive of the        *)
(* solution; calls counts these submissions.                               *)
(***************************************************************************)
PlayFirst ==
    /\ calls = 0
    /\ \/ StartInvestigation
       \/ GoToLocation
       \/ HandleAccusationSubmit

SubmitSolution ==
    /\ calls < MaxSubmissions
    /\ calls' = calls + 1
    /\ UNCHANGED form
    /\ \E evidence \in FormEvidence :
          LET args == <<CASE_SOLUTION.culpritId, CASE_SOLUTION.motiveId, evidence>>
              r == handleAccusationSubmit(currentState, args[1], args[2], args[3])
          IN /\ currentState' = r.state
             /\ feed' = r.feed
             /\ ret' = r.ret
             /\ warned' = r.warn
             /\ lastOp' = [op |-> "handleAccusationSubmit", args |-> args,
                           again |-> lastOp.op = "handleAccusationSubmit"
                                     /\ lastOp.args = args]

NextResubmit == PlayFirst \/ SubmitSolution

SpecResubmit == InitMain /\ [][NextResubmit]_vars

(***************************************************************************)
(* The notebook: the player opens it, chooses in its selects and submits   *)
(* the form                                                                *)
(***************************************************************************)
\* openNotebook: UI.renderNotebook, then the modal is shown
OpenNotebook ==
    /\ form' = renderNotebook(currentState, form)
    /\ ret' = RetUndefined
    /\ warned' = FALSE
    /\ lastOp' = [op |-> "openNotebook", args |-> <<>>,
                  again |-> lastOp.op = "openNotebook"]
    /\ UNCHANGED <<currentState, calls, feed>>

\* The player chooses an option of a select; a disabled select cannot be
\* changed
Chosen(name, value) ==
    /\ form' = [form EXCEPT ![name].value = value]
    /\ ret' = RetUndefined
    /\ warned' = FALSE
    /\ lastOp' = [op |-> "change", args |-> <<name, value>>,
                  again |-> lastOp.op = "change" /\ lastOp.args = <<name, value>>]
    /\ UNCHANGED <<currentState, calls, feed>>

ChooseSuspect ==
    /\ ~form.suspect.disabled
    /\ \E value \in FormSuspects : Chosen("suspect", value)

ChooseMotive == \E value \in FormMotives : Chosen("motive", value)

ChooseEvidence ==
    \E value \in FormEvidence :
        /\ value = "" \/ hasClue(currentState, value)
        /\ Chosen("evidence", value)

\* The submit event of the form
SubmitForm ==
    LET suspect == formDataGet(form, "suspect")
        motive == formDataGet(form, "motive")
        evidence == formDataGet(form, "evidence")
    IN Handled("handleAccusationSubmit", <<suspect, motive, evidence>>,
               handleAccusationSubmit(currentState, suspect, motive, evidence))

NextForm ==
    \/ StartInvestigation
    \/ OpenNotebook
    \/ ChooseSuspect
    \/ ChooseMotive
    \/ ChooseEvidence
    \/ SubmitForm

SpecForm == InitMain /\ [][NextForm]_vars

(***************************************************************************)
(* Clues only: discoveries and reveals, with resets between runs           *)
(***************************************************************************)
NextTier ==
    \/ DiscoverClue(FALSE)
    \/ RevealNextCriticalClue(FALSE)
    \/ ResetGameState(FALSE)

SpecTier == Init /\ [][NextTier]_vars

(***************************************************************************)
(* Properties of evaluateAccusation (checked under SpecEval)               *)
(***************************************************************************)
\* Number of critical clues among the discovered ones, counted as a set
CriticalDiscovered(s) ==
    Cardinality(Range(s.discoveredClueIds) \cap
                {"locked_office", "badge_log_anomaly", "audit_log_redactions",
                 "rooftop_argument", "victim_exit_request"})

\* The tier the scoring rules give: first matching rule wins
ExpectedTier(culprit, motive, found) ==
    IF culprit /\ motive /\ found = 5 THEN "perfect"
    ELSE IF culprit /\ (motive \/ found >= 3) THEN "close"
    ELSE "wrong"

Evaluated == lastOp.op = "evaluateAccusation"

\* C1: for every accusation and every set of discovered clues,
\* evaluateAccusation returns 'perfect' exactly when the suspect is the
\* culprit, the motive is the solution motive and all 5 critical clues are
\* discovered; otherwise 'close' exactly when the suspect is the culprit and
\* the motive is correct or at least 3 critical clues are discovered;
\* otherwise 'wrong'.
C1_TierDecision ==
    Evaluated =>
        ret.endingKey =
            ExpectedTier(currentState.accusation.suspectId = "rhea",
                         currentState.accusation.motiveId = "coverup",
                         CriticalDiscovered(currentState))

\* culprit + wrong motive + exactly 3 critical clues has been evaluated
C1_Witness ==
    /\ Evaluated
    /\ currentState.accusation.suspectId = "rhea"
    /\ currentState.accusation.motiveId = "greed"
    /\ CriticalDiscovered(currentState) = 3
    /\ ret.endingKey = "close"

\* C2: whenever accusation.suspectId is not the culprit id (null included),
\* evaluateAccusation yields endingKey 'wrong', whatever the motive and
\* however many critical clues are discovered.
C2_WrongCulpritIsWrong ==
    (Evaluated /\ currentState.accusation.suspectId # "rhea") =>
        (ret.endingKey = "wrong" /\ currentState.endingKey = "wrong")

\* no suspect accused, right motive, every critical clue found
C2_Witness ==
    /\ Evaluated
    /\ currentState.accusation.suspectId = null
    /\ currentState.accusation.motiveId = "coverup"
    /\ CriticalDiscovered(currentState) = 5
    /\ currentState.endingKey = "wrong"

\* C3: a call of evaluateAccusation, in any phase, stores score =
\* {culpritCorrect, motiveCorrect, criticalCluesFound = number of critical
\* clue ids in discoveredClueIds, criticalCluesTotal = 5}, endingKey = the
\* computed tier, phase = ending and dialogueContext = {ending, endingKey, 0};
\* it returns the stored score and endingKey; and it leaves accusation,
\* discoveredClueIds, visitedLocationIds, current and previous location,
\* flags, labActionsUsed and cortexHintsEnabled unchanged.
C3_EvaluateEffects ==
    [][lastOp'.op = "evaluateAccusation" =>
        /\ currentState'.score =
              [culpritCorrect |-> currentState.accusation.suspectId = "rhea",
               motiveCorrect |-> currentState.accusation.motiveId = "coverup",
               criticalCluesFound |-> CriticalDiscovered(currentState),
               criticalCluesTotal |-> 5]
        /\ currentState'.endingKey =
              ExpectedTier(currentState'.score.culpritCorrect,
                           currentState'.score.motiveCorrect,
                           currentState'.score.criticalCluesFound)
        /\ currentState'.phase = "ending"
        /\ currentState'.dialogueContext =
              [kind |-> "ending", targetId |-> currentState'.endingKey, index |-> 0]
        /\ ret' = [tag |-> "eval", score |-> currentState'.score,
                   endingKey |-> currentState'.endingKey]
        /\ currentState'.accusation = currentState.accusation
        /\ currentState'.discoveredClueIds = currentState.discoveredClueIds
        /\ currentState'.visitedLocationIds = currentState.visitedLocationIds
        /\ currentState'.currentLocationId = currentState.currentLocationId
        /\ currentState'.previousLocationId = currentState.previousLocationId
        /\ currentState'.flags = currentState.flags
        /\ currentState'.labActionsUsed = currentState.labActionsUsed
        /\ currentState'.cortexHintsEnabled = currentState.cortexHintsEnabled
    ]_vars

\* an evaluation in the middle of a run (locations visited, a flag set,
\* hints muted) that ended 'close'
C3_Witness ==
    /\ Evaluated
    /\ currentState.visitedLocationIds = <<"lab", "rooftop">>
    /\ "lab_forbidden_scan_used" \in DOMAIN currentState.flags
    /\ ~currentState.cortexHintsEnabled
    /\ currentState.accusation.evidenceId # null
    /\ currentState.endingKey = "close"
    /\ currentState.phase = "ending"

\* C5: calling evaluateAccusation twice in a row with no intervening
\* mutation returns the same {score, endingKey} both times and leaves the
\* state after the second call equal to the state after the first call.
C5_EvaluateTwice ==
    [][(lastOp.op = "evaluateAccusation" /\ lastOp'.op = "evaluateAccusation") =>
        (currentState' = currentState /\ ret' = ret)]_vars

\* evaluateAccusation has been called twice in a row
C5_Witness == Evaluated /\ lastOp.again

Reverse(q) == [i \in 1..Len(q) |-> q[Len(q) + 1 - i]]

Rotate(q) == IF q = <<>> THEN q ELSE Tail(q) \o <<Head(q)>>

\* Other orders of a sequence: every order of a short one, the reversal
\* and a rotation of a long one
OtherOrders(q) ==
    IF Len(q) <= MaxPermLen
    THEN {o \in DistinctSeqs(Range(q), Len(q)) : Len(o) = Len(q)}
    ELSE {Reverse(q), Rotate(q)}

\* The state s after another accusation was scored and the accusation of s
\* was recorded again: s with the score and ending of the other accusation
WithEarlierScore(s, suspectId, motiveId) ==
    LET a == s.accusation
        s1 == setAccusation(s, suspectId, motiveId, null).state
        s2 == evaluateAccusation(s1).state
    IN setAccusation(s2, a.suspectId, a.motiveId, a.evidenceId).state

\* States that agree with s on accusation.suspectId, accusation.motiveId and
\* the set of discovered clues, and differ from it in something else
Variants(s) ==
    {setPhase(s, phase).state : phase \in PhaseValues}
        \cup {setAccusation(s, s.accusation.suspectId, s.accusation.motiveId, e).state :
                e \in Range(CLUES) \cup {null}}
        \cup {setFlag(s, "lab_forbidden_scan_used", b).state : b \in BOOLEAN}
        \cup {clearFlag(s, "lab_forbidden_scan_used").state}
        \cup {setCurrentLocation(s, l).state : l \in Range(LOCATIONS)}
        \cup {markLabActionUsed(s, "lab_forbidden_scan").state}
        \cup {toggleCortexHints(s).state}
        \cup {setDialogueContext(s, "suspect", "dana", 1).state}
        \cup {WithEarlierScore(s, su, mo) : su \in AccusedSuspects, mo \in AccusedMotives}
        \cup {PreparedState(GAME_PHASES.INTRO, s.discoveredClueIds,
                            s.accusation.suspectId, s.accusation.motiveId)}
        \cup {[s EXCEPT !.discoveredClueIds = o] : o \in OtherOrders(s.discoveredClueIds)}

\* C6: the score and endingKey produced by evaluateAccusation depend only on
\* accusation.suspectId, accusation.motiveId and the set of discovered
\* clues: a state that agrees with the evaluated one on these and differs in
\* phase, key evidence, flags, visited locations, lab actions, hint setting,
\* dialogue context, earlier score and ending, or the order of discovery,
\* evaluates to the same score and endingKey.
C6_DependsOnlyOnInputs ==
    Evaluated => \A v \in Variants(currentState) : evaluateAccusation(v).ret = ret

\* an evaluation in the middle of a run, of clues found in an order that is
\* not the catalog's
C6_Witness ==
    /\ Evaluated
    /\ currentState.discoveredClueIds =
          <<"victim_exit_request", "locked_office", "rooftop_argument">>
    /\ currentState.accusation.suspectId = "rhea"
    /\ currentState.visitedLocationIds # <<>>
    /\ \E v \in Variants(currentState) :
          /\ v.discoveredClueIds = <<"locked_office", "rooftop_argument", "victim_exit_request">>
          /\ evaluateAccusation(v).ret.endingKey = "close"

(***************************************************************************)
(* Phase and ending (checked under Spec)                                   *)
(***************************************************************************)
EndingIffEndingPhase ==
    (currentState.endingKey # null) <=> (currentState.phase = "ending")

\* C4 as claimed: in every state reachable by the exported mutators,
\* endingKey is non-null if and only if phase is ending.
C4_Original == EndingIffEndingPhase

\* C4: endingKey is non-null iff phase is ending in the initial state and
\* after every evaluateAccusation and every resetGameState, and every
\* exported mutator other than setPhase preserves the equivalence; setPhase
\* changes phase and never endingKey.
C4_EndingKeyAndPhase ==
    /\ EndingIffEndingPhase
    /\ [][/\ lastOp'.op \in {"evaluateAccusation", "resetGameState"} =>
                EndingIffEndingPhase'
          /\ (lastOp'.op # "setPhase" /\ EndingIffEndingPhase) => EndingIffEndingPhase'
          /\ lastOp'.op = "setPhase" => currentState'.endingKey = currentState.endingKey
       ]_vars

\* an accusation was evaluated: the run has an ending and is in the ending phase
C4_Witness ==
    /\ lastOp.op = "evaluateAccusation"
    /\ currentState.accusation.suspectId = "rhea"
    /\ currentState.endingKey = "close"
    /\ currentState.phase = "ending"

(***************************************************************************)
(* Clue discovery (checked under SpecClues)                                *)
(***************************************************************************)
Occurrences(arr, value) == Cardinality({i \in DOMAIN arr : arr[i] = value})

\* C7: for every catalog clue id x, discoverClue(x) when x is not yet
\* discovered appends x to discoveredClueIds and returns the clue; x then
\* stays discovered until a reset, and any later discoverClue(x) leaves
\* discoveredClueIds unchanged, with x in it exactly once, and does not
\* return the clue.
C7_DiscoverOnce ==
    [][\A x \in Range(CLUES) :
        /\ (lastOp'.op = "discoverClue" /\ lastOp'.args = <<x>>) =>
              IF x \notin Range(currentState.discoveredClueIds)
              THEN /\ currentState'.discoveredClueIds =
                          Append(currentState.discoveredClueIds, x)
                   /\ ret' = [tag |-> "clue", id |-> x]
              ELSE /\ currentState'.discoveredClueIds = currentState.discoveredClueIds
                   /\ Occurrences(currentState'.discoveredClueIds, x) = 1
                   /\ ret'.tag # "clue"
        /\ (x \in Range(currentState.discoveredClueIds) /\ lastOp'.op # "resetGameState") =>
              x \in Range(currentState'.discoveredClueIds)
    ]_vars

\* discoverClue was called twice in a row with a clue found earlier
C7_Witness ==
    /\ lastOp.op = "discoverClue"
    /\ lastOp.args = <<"rooftop_argument">>
    /\ lastOp.again
    /\ Occurrences(currentState.discoveredClueIds, "rooftop_argument") = 1
    /\ Len(currentState.discoveredClueIds) >= 3
    /\ ret.tag # "clue"

\* The outcome of the last discoverClue call, by its argument and the state
\* before it
AlreadyKnownCall ==
    /\ lastOp.op = "discoverClue"
    /\ lastOp.args[1] \in Range(CLUES)
    /\ ret.tag # "clue"

NotFoundCall(op) ==
    /\ op.op = "discoverClue"
    /\ op.args[1] \notin Range(CLUES)

\* C8 as claimed: the result of a call with an already discovered clue (the
\* no-op result) is distinct from the result of a call with an id that is
\* not in the catalog (the not-found result).
C8_Original ==
    [][(AlreadyKnownCall /\ NotFoundCall(lastOp')) => ret' # ret]_vars

\* C8: discoverClue returns the clue object exactly when the clue is in the
\* catalog and newly added, and null in both other cases: an already
\* discovered clue and an id outside the catalog give the same result and
\* differ only in the warning that the unknown id logs.
C8_TwoResults ==
    [][\A x \in ClueInputs :
        (lastOp'.op = "discoverClue" /\ lastOp'.args = <<x>>) =>
            /\ ret' = IF x \in Range(CLUES) /\ x \notin Range(currentState.discoveredClueIds)
                      THEN [tag |-> "clue", id |-> x]
                      ELSE [tag |-> "null"]
            /\ warned' = (x \notin Range(CLUES))
    ]_vars

\* an id outside the catalog was passed after a known clue was passed again
C8_Witness ==
    /\ NotFoundCall(lastOp)
    /\ ret = [tag |-> "null"]
    /\ warned
    /\ currentState.discoveredClueIds # <<>>

\* Position of a critical clue in the solution's order
CriticalPosition(clueId) ==
    CHOOSE i \in DOMAIN CASE_SOLUTION.criticalClueIds :
        CASE_SOLUTION.criticalClueIds[i] = clueId

\* Positions of the critical clues missing from a state
MissingPositions(s) ==
    {i \in DOMAIN CASE_SOLUTION.criticalClueIds :
        CASE_SOLUTION.criticalClueIds[i] \notin Range(s.discoveredClueIds)}

Least(S) == CHOOSE i \in S : \A j \in S : i <= j

\* C9: revealNextCriticalClue discovers and returns the first id of
\* CASE_SOLUTION.criticalClueIds that is not in discoveredClueIds and
\* changes nothing else; consecutive calls return clues at strictly
\* increasing positions of that order; once all critical clues are
\* discovered a call returns null and leaves the state unchanged.
C9_RevealInOrder ==
    [][lastOp'.op = "revealNextCriticalClue" =>
        /\ IF MissingPositions(currentState) = {}
           THEN /\ ret' = [tag |-> "null"]
                /\ currentState' = currentState
           ELSE LET next == CASE_SOLUTION.criticalClueIds[Least(MissingPositions(currentState))]
                IN /\ ret' = [tag |-> "clue", id |-> next]
                   /\ currentState' =
                         [currentState EXCEPT !.discoveredClueIds = Append(@, next)]
        /\ (lastOp.op = "revealNextCriticalClue" /\ ret.tag = "clue" /\ ret'.tag = "clue") =>
              CriticalPosition(ret'.id) > CriticalPosition(ret.id)
    ]_vars

\* a second consecutive call skipped a clue found earlier and returned the
\* fourth critical clue
C9_Witness ==
    /\ lastOp.op = "revealNextCriticalClue"
    /\ currentState.discoveredClueIds =
          <<"audit_log_redactions", "locked_office", "badge_log_anomaly", "rooftop_argument">>
    /\ ret = [tag |-> "clue", id |-> "rooftop_argument"]

(***************************************************************************)
(* Location visits (checked under SpecVisit)                               *)
(***************************************************************************)
\* C10: a visit of a catalog location reports isFirstVisit = true exactly
\* when the id was not in visitedLocationIds before the call; a visited
\* location stays visited until a reset, whatever is called in between, so
\* every later visit reports false; after a successful visit
\* previousLocationId is the currentLocationId held just before the call.
C10_FirstVisit ==
    [][\A l \in Range(LOCATIONS) :
        /\ (lastOp'.op = "setCurrentLocation" /\ lastOp'.args = <<l>>) =>
              /\ ret'.tag = "visit"
              /\ ret'.isFirstVisit = (l \notin Range(currentState.visitedLocationIds))
              /\ currentState'.previousLocationId = currentState.currentLocationId
              /\ currentState'.currentLocationId = l
        /\ (l \in Range(currentState.visitedLocationIds) /\ lastOp'.op # "resetGameState") =>
              l \in Range(currentState'.visitedLocationIds)
    ]_vars

\* the lab was visited again after the rooftop, with other calls made in
\* the run
C10_Witness ==
    /\ lastOp.op = "setCurrentLocation"
    /\ lastOp.args = <<"lab">>
    /\ ret = [tag |-> "visit", location |-> "lab", isFirstVisit |-> FALSE]
    /\ currentState.visitedLocationIds = <<"lab", "rooftop">>
    /\ currentState.previousLocationId = "rooftop"
    /\ currentState.phase = "deduction"
    /\ ~currentState.cortexHintsEnabled

\* The fields a successful visit writes
VisitWritten ==
    {"previousLocationId", "currentLocationId", "visitedLocationIds", "dialogueContext"}

\* C11: a visit of a catalog location sets previousLocationId to the old
\* currentLocationId, currentLocationId to the id, appends the id to
\* visitedLocationIds only if it is absent, sets dialogueContext to
\* {location, id, 0}, and leaves every other field of the state as it was.
C11_VisitEffects ==
    [][\A l \in Range(LOCATIONS) :
        (lastOp'.op = "setCurrentLocation" /\ lastOp'.args = <<l>>) =>
            /\ currentState'.previousLocationId = currentState.currentLocationId
            /\ currentState'.currentLocationId = l
            /\ currentState'.visitedLocationIds =
                  IF l \in Range(currentState.visitedLocationIds)
                  THEN currentState.visitedLocationIds
                  ELSE Append(currentState.visitedLocationIds, l)
            /\ currentState'.dialogueContext =
                  [kind |-> "location", targetId |-> l, index |-> 0]
            /\ \A f \in DOMAIN currentState \ VisitWritten :
                  currentState'[f] = currentState[f]
    ]_vars

\* the lab is visited a second time after an evaluation ended the game
C11_Witness ==
    /\ lastOp.op = "setCurrentLocation"
    /\ lastOp.args = <<"lab">>
    /\ currentState.visitedLocationIds = <<"lab">>
    /\ currentState.previousLocationId = "lab"
    /\ currentState.dialogueContext = [kind |-> "location", targetId |-> "lab", index |-> 0]
    /\ currentState.phase = "ending"
    /\ currentState.endingKey = "wrong"

\* C12: a visit of an id that is not a catalog location returns no result
\* and leaves the whole state unchanged.
C12_UnknownLocation ==
    [][(lastOp'.op = "setCurrentLocation" /\ lastOp'.args[1] \notin Range(LOCATIONS)) =>
            /\ ret' = RetUndefined
            /\ currentState' = currentState
    ]_vars

\* an unknown id is given on the rooftop, reached from the lab, with the
\* rooftop's dialogue advanced
C12_Witness ==
    /\ lastOp.op = "setCurrentLocation"
    /\ lastOp.args = <<"unknown_location">>
    /\ ret = RetUndefined
    /\ warned
    /\ currentState.currentLocationId = "rooftop"
    /\ currentState.previousLocationId = "lab"
    /\ currentState.visitedLocationIds = <<"lab", "rooftop">>
    /\ currentState.dialogueContext = [kind |-> "location", targetId |-> "rooftop", index |-> 1]

(***************************************************************************)
(* The dialogue cursor                                                     *)
(***************************************************************************)
\* A context has a script when it is the intro or names a location, a
\* suspect or an ending of the catalog
HasScript(ctx) == <<ctx.kind, ctx.targetId>> \in ScriptContexts

\* The lines of a context that has a script
Script(ctx) ==
    CASE ctx.kind = "intro" -> INTRO_DIALOGUE
      [] ctx.kind = "location" -> LOCATION_DIALOGUE[ctx.targetId].intro
      [] ctx.kind = "suspect" -> SUSPECT_DIALOGUE[ctx.targetId].intro
      [] ctx.kind = "ending" -> ENDINGS[ctx.targetId]

Min(a, b) == IF a <= b THEN a ELSE b

\* C13 (checked under SpecDialogue, where calls counts the advances made
\* since a script of length N was placed at index 0): the k-th advance
\* reports "continue" when k <= N-1 and "end" when k > N-1, so "continue"
\* is reported exactly N-1 times and "end" on every call after that; the
\* index is the number of advances up to N-1 and never exceeds N-1.
C13_ContinueThenEnd ==
    LET ctx == currentState.dialogueContext
        N == Len(Script(ctx))
    IN /\ HasScript(ctx)
       /\ N >= 1
       /\ ctx.index <= N - 1
       /\ ctx.index = Min(calls, N - 1)
       /\ lastOp.op = "advanceDialogueIndex" =>
             ret = RetString(IF calls <= N - 1 THEN "continue" ELSE "end")

\* the four lines of the intro were read and two more advances reported
\* "end"
C13_Witness ==
    /\ currentState.dialogueContext = [kind |-> "intro", targetId |-> null, index |-> 3]
    /\ lastOp.op = "advanceDialogueIndex"
    /\ calls = 5
    /\ ret = RetString("end")

C15_Original ==
    [][(lastOp'.op = "advanceDialogueIndex" /\ ~HasScript(currentState.dialogueContext)) =>
            /\ ret' = RetString("end")
            /\ currentState' = currentState
    ]_vars

\* The index is within the script of a context that has one
InBounds(s) ==
    HasScript(s.dialogueContext) =>
        /\ 0 <= s.dialogueContext.index
        /\ s.dialogueContext.index <= Len(Script(s.dialogueContext)) - 1

\* C16 as claimed: in every reachable state whose context has a script of
\* length N, 0 <= index <= N-1, setDialogueContext included.
C16_Original == InBounds(currentState)

\* C16 as amended: the index is within the script in the initial state;
\* every call other than setDialogueContext keeps it within the script;
\* on an index past the last line, which only setDialogueContext installs,
\* advanceDialogueIndex reports "end" and changes nothing.
C16_IndexInBounds ==
    /\ InBounds(createInitialState)
    /\ [][/\ (lastOp'.op # "setDialogueContext" /\ InBounds(currentState)) =>
                InBounds(currentState')
          /\ (/\ lastOp'.op = "advanceDialogueIndex"
              /\ HasScript(currentState.dialogueContext)
              /\ currentState.dialogueContext.index
                    > Len(Script(currentState.dialogueContext)) - 1) =>
                (ret' = RetString("end") /\ currentState' = currentState)
       ]_vars

\* three advances brought the intro to its last line
C16_Witness ==
    /\ lastOp.op = "advanceDialogueIndex"
    /\ ret = RetString("continue")
    /\ calls = 3
    /\ currentState.dialogueContext = [kind |-> "intro", targetId |-> null, index |-> 3]

(***************************************************************************)
(* Reset and the invariants of the store                                   *)
(***************************************************************************)
StateFields ==
    {"phase", "currentLocationId", "previousLocationId", "visitedLocationIds",
     "discoveredClueIds", "labActionsUsed", "flags", "dialogueContext",
     "suspectIntroSeen", "unlockedTopicsBySuspect", "cortexHintsEnabled",
     "accusation", "endingKey", "score"}

\* C17: after resetGameState, from any state, every field has the value of
\* a freshly constructed state: phase intro, no current or previous
\* location, nothing visited or discovered, no lab action and no flag,
\* dialogueContext {intro, null, 0}, hints on, accusation all null,
\* endingKey null, score {false, false, 0, 5}, no suspect intro seen and no
\* topic unlocked.
C17_ResetIsFresh ==
    [][lastOp'.op = "resetGameState" =>
            /\ DOMAIN currentState' = StateFields
            /\ currentState'.phase = "intro"
            /\ currentState'.currentLocationId = null
            /\ currentState'.previousLocationId = null
            /\ currentState'.visitedLocationIds = <<>>
            /\ currentState'.discoveredClueIds = <<>>
            /\ currentState'.labActionsUsed = {}
            /\ DOMAIN currentState'.flags = {}
            /\ currentState'.dialogueContext = [kind |-> "intro", targetId |-> null, index |-> 0]
            /\ currentState'.cortexHintsEnabled = TRUE
            /\ currentState'.accusation =
                  [suspectId |-> null, motiveId |-> null, evidenceId |-> null]
            /\ currentState'.endingKey = null
            /\ currentState'.score =
                  [culpritCorrect |-> FALSE, motiveCorrect |-> FALSE,
                   criticalCluesFound |-> 0, criticalCluesTotal |-> 5]
            /\ currentState'.suspectIntroSeen = [su \in {"rhea", "milo", "dana"} |-> FALSE]
            /\ currentState'.unlockedTopicsBySuspect = [su \in {"rhea", "milo", "dana"} |-> {}]
    ]_vars

\* a reset is the third call of a run, after two calls of other mutators
C17_Witness ==
    /\ lastOp = [op |-> "resetGameState", args |-> <<>>, again |-> FALSE]
    /\ calls = 3
    /\ currentState.phase = "intro"
    /\ currentState.cortexHintsEnabled

NoDuplicates(arr) == \A i, j \in DOMAIN arr : arr[i] = arr[j] => i = j

\* C18: in every reachable state no clue id occurs twice in
\* discoveredClueIds and no location id occurs twice in visitedLocationIds.
C18_NoDuplicates ==
    /\ NoDuplicates(currentState.discoveredClueIds)
    /\ NoDuplicates(currentState.visitedLocationIds)

\* the lab was visited twice with another visit in between
C18_Witness ==
    /\ lastOp.op = "setCurrentLocation"
    /\ lastOp.args = <<"lab">>
    /\ currentState.previousLocationId = "rooftop"
    /\ currentState.visitedLocationIds = <<"lab", "rooftop">>
    /\ calls = 3

\* C19: in every reachable state score.criticalCluesTotal is the number of
\* critical clues of the case, 5.
C19_CriticalTotal ==
    /\ currentState.score.criticalCluesTotal = 5
    /\ currentState.score.criticalCluesTotal = Len(CASE_SOLUTION.criticalClueIds)

\* an evaluation counted one critical clue among two discovered clues
C19_Witness ==
    /\ lastOp.op = "evaluateAccusation"
    /\ Len(currentState.discoveredClueIds) = 2
    /\ currentState.score.criticalCluesFound = 1
    /\ ret.tag = "eval"
    /\ ret.score.criticalCluesTotal = 5

(***************************************************************************)
(* Unknown ids                                                             *)
(***************************************************************************)
\* The step is a call of a mutator with a suspect, motive or clue id that
\* is not in the catalog (null, the empty choice of the form, is not an id)
UnknownIdCall(op, args) ==
    \/ op = "discoverClue" /\ args[1] \notin Range(CLUES)
    \/ op = "markSuspectIntroSeen" /\ args[1] \notin Range(SUSPECTS)
    \/ op = "unlockSuspectTopic" /\ args[1] \notin Range(SUSPECTS)
    \/ /\ op = "setAccusation"
       /\ \/ args[1] \notin Range(SUSPECTS) \cup {null}
          \/ args[2] \notin Range(MOTIVES) \cup {null}
          \/ args[3] \notin Range(CLUES) \cup {null}

\* C20 as claimed: every mutator that is passed an unknown suspect, motive
\* or clue id leaves the state unchanged, setAccusation included.
C20_Original ==
    [][UnknownIdCall(lastOp'.op, lastOp'.args) => currentState' = currentState]_vars

\* C20 as amended: discoverClue, markSuspectIntroSeen and unlockSuspectTopic
\* leave the state unchanged when they are passed an unknown id;
\* setAccusation stores the three ids exactly as given, known or not,
\* changes no other field, and warns exactly when one of them is unknown.
C20_UnknownIds ==
    [][/\ (UnknownIdCall(lastOp'.op, lastOp'.args) /\ lastOp'.op # "setAccusation") =>
              currentState' = currentState
       /\ lastOp'.op = "setAccusation" =>
              /\ currentState' =
                    [currentState EXCEPT !.accusation =
                        [suspectId |-> lastOp'.args[1],
                         motiveId |-> lastOp'.args[2],
                         evidenceId |-> lastOp'.args[3]]]
              /\ warned' = UnknownIdCall(lastOp'.op, lastOp'.args)
    ]_vars

\* an accusation of an unknown suspect is stored over an earlier accusation
\* of rhea
C20_Witness ==
    /\ lastOp.op = "setAccusation"
    /\ lastOp.args = <<"unknown_suspect", "greed", null>>
    /\ warned
    /\ currentState.accusation =
          [suspectId |-> "unknown_suspect", motiveId |-> "greed", evidenceId |-> null]
    /\ currentState.score.culpritCorrect
    /\ currentState.endingKey = "close"

(***************************************************************************)
(* Clues outside the catalog (checked under SpecClues)                     *)
(***************************************************************************)
\* C21: discoverClue with an id that is not a catalog clue returns null
\* and leaves the whole state unchanged, and no call ever leaves an id
\* that is not a catalog clue in discoveredClueIds.
C21_UnknownClue ==
    /\ Range(createInitialState.discoveredClueIds) \subseteq Range(CLUES)
    /\ [][/\ (lastOp'.op = "discoverClue" /\ lastOp'.args[1] \notin Range(CLUES)) =>
                /\ ret' = RetNull
                /\ currentState' = currentState
          /\ Range(currentState'.discoveredClueIds) \subseteq Range(CLUES)
       ]_vars

\* an unknown id is given after two clues were found and the hints muted
C21_Witness ==
    /\ lastOp.op = "discoverClue"
    /\ lastOp.args = <<"unknown_clue">>
    /\ ret = RetNull
    /\ warned
    /\ currentState.discoveredClueIds = <<"rooftop_argument", "locked_office">>
    /\ ~currentState.cortexHintsEnabled

(***************************************************************************)
(* Phases and hints                                                        *)
(***************************************************************************)
RecognizedPhases == {"intro", "investigation", "deduction", "accusation", "ending"}

\* C22: setPhase with a value that is not one of the five recognized
\* phases leaves the whole state unchanged, and phase is one of the five
\* in every reachable state.
C22_UnknownPhase ==
    /\ createInitialState.phase \in RecognizedPhases
    /\ [][/\ (lastOp'.op = "setPhase" /\ lastOp'.args[1] \notin RecognizedPhases) =>
                currentState' = currentState
          /\ currentState'.phase \in RecognizedPhases
       ]_vars

\* an unknown phase is given after an evaluation ended the game
C22_Witness ==
    /\ lastOp.op = "setPhase"
    /\ lastOp.args = <<"unknown_phase">>
    /\ warned
    /\ currentState.phase = "ending"
    /\ currentState.endingKey = "wrong"

\* C23: setPhase(intro) sets phase to intro and dialogueContext to
\* {intro, null, 0} and changes nothing else; setPhase to one of the other
\* four phases changes the phase field only.
C23_PhaseEffects ==
    [][lastOp'.op = "setPhase" =>
            /\ lastOp'.args[1] = "intro" =>
                  currentState' =
                      [currentState EXCEPT
                          !.phase = "intro",
                          !.dialogueContext =
                              [kind |-> "intro", targetId |-> null, index |-> 0]]
            /\ lastOp'.args[1] \in RecognizedPhases \ {"intro"} =>
                  currentState' = [currentState EXCEPT !.phase = lastOp'.args[1]]
    ]_vars

\* the phase is set to deduction after an evaluation left an ending
\* context and a score
C23_Witness ==
    /\ lastOp.op = "setPhase"
    /\ lastOp.args = <<"deduction">>
    /\ currentState.phase = "deduction"
    /\ currentState.dialogueContext = [kind |-> "ending", targetId |-> "close", index |-> 0]
    /\ currentState.endingKey = "close"
    /\ currentState.score.culpritCorrect

\* C26: toggleCortexHints sets cortexHintsEnabled to the negation of its
\* value, returns the new value and changes no other field; toggling a
\* state twice gives the state back.
C26_ToggleHints ==
    /\ [][lastOp'.op = "toggleCortexHints" =>
            /\ currentState' =
                  [currentState EXCEPT
                      !.cortexHintsEnabled = ~currentState.cortexHintsEnabled]
            /\ ret' = RetBoolean(currentState'.cortexHintsEnabled)
            /\ lastOp'.again => currentState'.cortexHintsEnabled = ~ret.value
       ]_vars
    /\ [](toggleCortexHints(toggleCortexHints(currentState).state).state = currentState)

\* the hints were toggled twice in a row on the rooftop and are on again
C26_Witness ==
    /\ lastOp = [op |-> "toggleCortexHints", args |-> <<>>, again |-> TRUE]
    /\ ret = RetBoolean(TRUE)
    /\ currentState.cortexHintsEnabled
    /\ currentState.currentLocationId = "rooftop"
    /\ currentState.phase = "investigation"

(***************************************************************************)
(* The list of discovered clues (checked under SpecNotebook)               *)
(***************************************************************************)
IsPrefix(p, q) == Len(p) <= Len(q) /\ \A i \in DOMAIN p : p[i] = q[i]

\* C24: getDiscoveredClues returns the discovered clues in the order of
\* their first successful discovery: a successful discovery puts its clue
\* at the end of the list, and across every call other than a reset the
\* list returned before is a prefix of the list returned after; the
\* queries getDiscoveredClues and hasClue do not change the state.
C24_DiscoveryOrder ==
    [][/\ lastOp'.op = "getDiscoveredClues" =>
             /\ ret' = RetClues(currentState.discoveredClueIds)
             /\ currentState' = currentState
       /\ lastOp'.op = "hasClue" =>
             /\ ret' = RetBoolean(lastOp'.args[1] \in Range(currentState.discoveredClueIds))
             /\ currentState' = currentState
       /\ lastOp'.op # "resetGameState" =>
             IsPrefix(getDiscoveredClues(currentState), getDiscoveredClues(currentState'))
       /\ (lastOp'.op \in {"discoverClue", "revealNextCriticalClue"} /\ ret'.tag = "clue") =>
             getDiscoveredClues(currentState') =
                 Append(getDiscoveredClues(currentState), ret'.id)
    ]_vars

\* the list is read after the rooftop argument was found before the
\* locked office, against the catalog order
C24_Witness ==
    /\ lastOp.op = "getDiscoveredClues"
    /\ ret = RetClues(<<"rooftop_argument", "locked_office", "badge_log_anomaly">>)
    /\ currentState.discoveredClueIds =
          <<"rooftop_argument", "locked_office", "badge_log_anomaly">>

(***************************************************************************)
(* Flags and lab actions (checked under SpecFlags)                         *)
(***************************************************************************)
\* The step is a setFlag or clearFlag call on the name n
WritesFlag(op, n) == op.op \in {"setFlag", "clearFlag"} /\ op.args[1] = n

\* C25: for every flag name n, getFlag(n) is false in a fresh state and
\* after a reset, takes the value given by setFlag(n, value) (true when
\* the value is left out), is false after clearFlag(n), and keeps its
\* value across every call that is not a reset and does not set or clear
\* n, calls on other names included.
C25_Original ==
    /\ \A n \in FlagNames : ~getFlag(createInitialState, n)
    /\ [][\A n \in FlagNames :
            /\ (lastOp'.op = "setFlag" /\ lastOp'.args[1] = n) =>
                  getFlag(currentState', n) =
                      (IF Len(lastOp'.args) = 1 THEN TRUE ELSE lastOp'.args[2])
            /\ (lastOp'.op = "clearFlag" /\ lastOp'.args[1] = n) =>
                  ~getFlag(currentState', n)
            /\ lastOp'.op = "resetGameState" => ~getFlag(currentState', n)
            /\ (lastOp'.op # "resetGameState" /\ ~WritesFlag(lastOp', n)) =>
                  getFlag(currentState', n) = getFlag(currentState, n)
            /\ (lastOp'.op = "getFlag" /\ lastOp'.args[1] = n) =>
                  ret' = RetBoolean(getFlag(currentState, n))
       ]_vars

\* C28: once markLabActionUsed(a) was called, isLabActionUsed(a) is true
\* after every later call until resetGameState; after a reset, and for an
\* action that was not marked in the run, it is false.
C28_LabActionUsed ==
    /\ \A a \in LabActionIds : ~isLabActionUsed(createInitialState, a)
    /\ [][\A a \in LabActionIds :
            /\ (lastOp'.op = "markLabActionUsed" /\ lastOp'.args = <<a>>) =>
                  isLabActionUsed(currentState', a)
            /\ (lastOp'.op # "resetGameState" /\ isLabActionUsed(currentState, a)) =>
                  isLabActionUsed(currentState', a)
            /\ lastOp'.op = "resetGameState" => ~isLabActionUsed(currentState', a)
            /\ (~(lastOp'.op = "markLabActionUsed" /\ lastOp'.args = <<a>>)
                   /\ ~isLabActionUsed(currentState, a)) =>
                  ~isLabActionUsed(currentState', a)
            /\ (lastOp'.op = "isLabActionUsed" /\ lastOp'.args = <<a>>) =>
                  /\ ret' = RetBoolean(a \in currentState.labActionsUsed)
                  /\ currentState' = currentState
       ]_vars

\* the deep scan reads as used after the other action was marked, the
\* hints muted and an accusation evaluated
C28_Witness ==
    /\ lastOp.op = "isLabActionUsed"
    /\ lastOp.args = <<"lab_deep_scan">>
    /\ ret = RetBoolean(TRUE)
    /\ currentState.labActionsUsed = {"lab_deep_scan", "lab_forbidden_scan"}
    /\ currentState.phase = "ending"
    /\ ~currentState.cortexHintsEnabled

(***************************************************************************)
(* Properties of the handlers of js/main.js (checked under SpecMain)       *)
(***************************************************************************)
\* The feed holds a message with this text and severity
Logged(f, text, severity) ==
    \E i \in DOMAIN f : f[i].text = text /\ f[i].severity = severity

\* No normal message in the feed was appended while hints were off
NormalOnlyWithHints(f) ==
    \A i \in DOMAIN f : f[i].severity = "normal" => f[i].hintsEnabled

\* C27: across every sequence of startInvestigation, goToLocation,
\* toggleHints, handleAccusationSubmit and restartCase (from the loaded
\* page), no message of severity normal is appended to the CORTEX feed
\* while cortexHintsEnabled is false, the clue messages startInvestigation
\* appends directly included, and the alert and critical messages of the
\* handlers (outcome tier, case reset, hints muted) are appended whatever
\* the hint setting is.
C27_HintsRespected ==
    /\ NormalOnlyWithHints(feed)
    /\ [][/\ NormalOnlyWithHints(feed')
          /\ lastOp'.op = "handleAccusationSubmit"
                => Logged(feed', "Accusation recorded", "critical")
          /\ lastOp'.op = "restartCase" => Logged(feed', "Case reset", "alert")
          /\ lastOp'.op = "toggleHints" /\ ~currentState'.cortexHintsEnabled
                => Logged(feed', "CORTEX hints muted", "alert")]_vars

\* An accusation submitted with hints off: the outcome tier is in the feed
\* and nothing else is
C27_Witness ==
    /\ lastOp.op = "handleAccusationSubmit"
    /\ ~currentState.cortexHintsEnabled
    /\ Len(feed) = 1
    /\ feed[1].severity = "critical"
    /\ ~feed[1].hintsEnabled

\* The confidence messages of a feed
ConfidenceMessages(f) == {i \in DOMAIN f : f[i].text = "CORTEX confidence"}

\* 600 for the culprit, 200 for the motive and 200 for each unit of the
\* clue fraction, multiplied by the total to stay in whole numbers
WeightedTimesTotal(score) ==
    ((IF score.culpritCorrect THEN 600 ELSE 0)
     + (IF score.motiveCorrect THEN 200 ELSE 0)) * score.criticalCluesTotal
    + 200 * score.criticalCluesFound

\* C29: the confidence handleAccusationSubmit displays, in tenths of a
\* percent, is 600 for a correct culprit plus 200 for a correct motive plus
\* 200 * criticalCluesFound / criticalCluesTotal (40 per critical clue, the
\* total being 5), clamped to [0, 1000]; it is computed from the score the
\* evaluation stored, and the ending tier is the one the score alone
\* determines.
C29_Confidence ==
    lastOp.op = "handleAccusationSubmit" =>
        LET score == currentState.score IN
        /\ score.criticalCluesTotal = 5
        /\ currentState.endingKey =
               endingTier(score.culpritCorrect, score.motiveCorrect,
                          score.criticalCluesFound, score.criticalCluesTotal)
        /\ currentState.cortexHintsEnabled => Cardinality(ConfidenceMessages(feed)) = 1
        /\ \A i \in ConfidenceMessages(feed) :
              /\ feed[i].score = score
              /\ feed[i].confidence \in 0..1000
              /\ feed[i].confidence * score.criticalCluesTotal =
                     Min(1000 * score.criticalCluesTotal,
                         WeightedTimesTotal(score))
              /\ feed[i].confidence =
                     (IF score.culpritCorrect THEN 600 ELSE 0)
                     + (IF score.motiveCorrect THEN 200 ELSE 0)
                     + 40 * score.criticalCluesFound

\* The right culprit with the wrong motive and two of the five critical
\* clues: 68.0%
C29_Witness ==
    /\ lastOp.op = "handleAccusationSubmit"
    /\ currentState.score.culpritCorrect
    /\ ~currentState.score.motiveCorrect
    /\ currentState.score.criticalCluesFound = 2
    /\ \E i \in ConfidenceMessages(feed) : feed[i].confidence = 680

\* The clues the visit thresholds call for are discovered
ThresholdsCovered(s) ==
    LET visitedCount == Cardinality(Range(s.visitedLocationIds)) IN
    /\ visitedCount >= 1 => hasClue(s, "locked_office")
    /\ visitedCount >= 2 =>
          hasClue(s, "badge_log_anomaly") /\ hasClue(s, "audit_log_redactions")
    /\ visitedCount >= 3 =>
          /\ hasClue(s, "rooftop_argument") /\ hasClue(s, "victim_exit_request")
          /\ \A i \in DOMAIN CASE_SOLUTION.criticalClueIds :
                hasClue(s, CASE_SOLUTION.criticalClueIds[i])

\* C30: after every startInvestigation and every goToLocation of a catalog
\* location the discovered clues cover the visit thresholds (one location
\* visited: locked_office; two: also badge_log_anomaly and
\* audit_log_redactions; all three: also rooftop_argument and
\* victim_exit_request, hence all five critical clues), and a goToLocation
\* of a location already visited leaves discoveredClueIds as it was.
C30_VisitThresholds ==
    [][/\ lastOp'.op = "startInvestigation" =>
             /\ Len(currentState'.visitedLocationIds) = 1
             /\ ThresholdsCovered(currentState')
       /\ lastOp'.op = "goToLocation" /\ includes(LOCATIONS, lastOp'.args[1]) =>
             /\ includes(currentState'.visitedLocationIds, lastOp'.args[1])
             /\ ThresholdsCovered(currentState')
             /\ includes(currentState.visitedLocationIds, lastOp'.args[1]) =>
                   /\ currentState'.discoveredClueIds = currentState.discoveredClueIds
                   /\ \A i \in DOMAIN feed' : feed'[i].text # "Clue logged"]_vars

\* The third location has just been visited and the last two critical
\* clues were logged
C30_Witness ==
    /\ lastOp.op = "goToLocation"
    /\ Len(currentState.visitedLocationIds) = 3
    /\ currentState.discoveredClueIds = CASE_SOLUTION.criticalClueIds
    /\ Len(feed) = 3
    /\ feed[1].text = "New location visited"
    /\ feed[2] = [text |-> "Clue logged", clueId |-> "rooftop_argument",
                  severity |-> "normal", hintsEnabled |-> TRUE]
    /\ feed[3].text = "Clue logged" /\ feed[3].clueId = "victim_exit_request"

\* C31: handleAccusationSubmit reveals a further clue only when the
\* evaluated ending is 'close' and critical clues are missing, and then it
\* appends exactly one clue, the first critical clue of the solution order
\* not yet discovered; for 'perfect' and 'wrong' discoveredClueIds is left
\* as it was.  So the number of discovered critical clues after the handler
\* is score.criticalCluesFound, or one more in the close-and-incomplete
\* case.
C31_SubmitReveal ==
    [][lastOp'.op = "handleAccusationSubmit" =>
        LET score == currentState'.score
            before == currentState.discoveredClueIds
            after == currentState'.discoveredClueIds
        IN IF /\ currentState'.endingKey = "close"
              /\ score.criticalCluesFound < score.criticalCluesTotal
           THEN /\ MissingPositions(currentState) # {}
                /\ after = Append(before,
                       CASE_SOLUTION.criticalClueIds[Least(MissingPositions(currentState))])
                /\ CriticalDiscovered(currentState') = score.criticalCluesFound + 1
           ELSE /\ currentState'.endingKey \in {"perfect", "wrong", "close"}
                /\ after = before
                /\ CriticalDiscovered(currentState') = score.criticalCluesFound]_vars

\* A close ending with one of five critical clues: the second one was
\* revealed and announced
C31_Witness ==
    /\ lastOp.op = "handleAccusationSubmit"
    /\ currentState.endingKey = "close"
    /\ currentState.score.criticalCluesFound = 1
    /\ currentState.discoveredClueIds = <<"locked_office", "badge_log_anomaly">>
    /\ \E i \in DOMAIN feed :
          feed[i].text = "Unlocking latent clue" /\ feed[i].clueId = "badge_log_anomaly"

\* C32: from any state the handlers reach, submitting the form repeatedly
\* with the culprit and the motive of the solution gives 'perfect' after at
\* most criticalCluesTotal + 1 = 6 submissions: every submission that is
\* not 'perfect' is 'close' and adds exactly one critical clue, and a
\* 'perfect' one adds nothing.
C32_ReachesPerfect ==
    /\ [](calls >= Len(CASE_SOLUTION.criticalClueIds) + 1
             => currentState.endingKey = "perfect")
    /\ [][calls' = calls + 1 =>
            \/ /\ currentState'.endingKey = "perfect"
               /\ currentState'.discoveredClueIds = currentState.discoveredClueIds
               /\ CriticalDiscovered(currentState') = 5
            \/ /\ currentState'.endingKey = "close"
               /\ Len(currentState'.discoveredClueIds)
                     = Len(currentState.discoveredClueIds) + 1
               /\ CriticalDiscovered(currentState')
                     = CriticalDiscovered(currentState) + 1]_vars

\* The fifth submission, starting without any clue, is still 'close': it
\* found four critical clues and revealed the last one
C32_Witness ==
    /\ calls = 5
    /\ currentState.endingKey = "close"
    /\ currentState.score.criticalCluesFound = 4
    /\ currentState.discoveredClueIds = CASE_SOLUTION.criticalClueIds
    /\ currentState.visitedLocationIds = <<>>

\* The suspect select is locked at the accused suspect of an evaluation
\* that found the culprit right and critical clues missing
SuspectLocked ==
    /\ currentState.score.culpritCorrect
    /\ currentState.score.criticalCluesFound < currentState.score.criticalCluesTotal
    /\ form.suspect.disabled
    /\ form.suspect.value = currentState.accusation.suspectId

\* C33: after an evaluation that leaves culpritCorrect true with critical
\* clues missing, renderNotebook disables the suspect select at the
\* accused suspect, and a handleAccusationSubmit that reads this form
\* records the locked suspect as accusation.suspectId, so that
\* culpritCorrect stays true while motive and key evidence are refined.
C33_Original ==
    [][/\ (lastOp'.op = "openNotebook"
           /\ currentState.score.culpritCorrect
           /\ currentState.score.criticalCluesFound
                 < currentState.score.criticalCluesTotal)
          => /\ form'.suspect.disabled
             /\ form'.suspect.value = currentState.accusation.suspectId
       /\ (lastOp'.op = "handleAccusationSubmit" /\ SuspectLocked)
          => /\ currentState'.accusation.suspectId = form.suspect.value
             /\ currentState'.score.culpritCorrect]_vars

\* C34: from every state the handlers reach, startInvestigation leaves the
\* same state: phase investigation, the first catalog location (lab) as
\* current location with no previous one, visitedLocationIds = [lab],
\* discoveredClueIds = [locked_office], the dialogue at line 0 of the lab,
\* hints enabled, an empty accusation and no ending; nothing of an earlier
\* run survives.
C34_StartInvestigation ==
    [][lastOp'.op = "startInvestigation" =>
        /\ currentState'.phase = "investigation"
        /\ currentState'.currentLocationId = "lab"
        /\ LOCATIONS[1] = "lab"
        /\ currentState'.previousLocationId = null
        /\ currentState'.visitedLocationIds = <<"lab">>
        /\ currentState'.discoveredClueIds = <<"locked_office">>
        /\ currentState'.dialogueContext =
              [kind |-> "location", targetId |-> "lab", index |-> 0]
        /\ currentState'.cortexHintsEnabled = TRUE
        /\ currentState'.accusation =
              [suspectId |-> null, motiveId |-> null, evidenceId |-> null]
        /\ currentState'.endingKey = null
        /\ currentState'.score =
              [culpritCorrect |-> FALSE, motiveCorrect |-> FALSE,
               criticalCluesFound |-> 0, criticalCluesTotal |-> 5]
        /\ currentState'.labActionsUsed = {}
        /\ DOMAIN currentState'.flags = {}
        /\ currentState'.suspectIntroSeen = [su \in {"rhea", "milo", "dana"} |-> FALSE]
        /\ currentState'.unlockedTopicsBySuspect = [su \in {"rhea", "milo", "dana"} |-> {}]
        /\ DOMAIN currentState' = StateFields]_vars

\* startInvestigation has run and announced the clue of the first visit
C34_Witness ==
    /\ lastOp.op = "startInvestigation"
    /\ currentState.visitedLocationIds = <<"lab">>
    /\ Len(feed) = 2
    /\ feed[1].text = "Clue logged" /\ feed[1].clueId = "locked_office"
    /\ feed[2].text = "Investigation initialized"

C36_IdsInCatalog ==
    LET visited == Range(currentState.visitedLocationIds) IN
    /\ visited \subseteq Range(LOCATIONS)
    /\ Range(currentState.discoveredClueIds) \subseteq Range(CLUES)
    /\ currentState.currentLocationId \in visited \cup {null}
    /\ currentState.previousLocationId \in visited \cup {null}
    /\ (currentState.currentLocationId = null) <=> (visited = {})

\* Two locations visited within three calls: the previous location is the
\* first of the visited ones
C36_Witness ==
    /\ currentState.visitedLocationIds = <<"rooftop", "lab">>
    /\ currentState.currentLocationId = "lab"
    /\ currentState.previousLocationId = "rooftop"
    /\ calls = 3

(***************************************************************************)
(* The tier as the clues grow (checked under SpecTier)                     *)
(***************************************************************************)
\* wrong < close < perfect
TierRank(tier) ==
    CASE tier = "wrong" -> 0
      [] tier = "close" -> 1
      [] tier = "perfect" -> 2

\* The tier evaluateAccusation yields in state s for an accusation
TierFor(s, suspectId, motiveId) ==
    evaluateAccusation(setAccusation(s, suspectId, motiveId, null).state).ret.endingKey

\* C37: for a fixed accusation the tier is monotone in the discovered
\* clues: across every discoverClue and revealNextCriticalClue the tier
\* evaluateAccusation yields for any suspect and motive does not go down in
\* the order wrong < close < perfect (hence not over any sequence of such
\* calls), and the discovery of a non-critical clue leaves it the same.
C37_TierMonotone ==
    [][lastOp'.op \in {"discoverClue", "revealNextCriticalClue"} =>
        \A suspectId \in {"rhea", "milo"}, motiveId \in {"coverup", "greed"} :
            LET before == TierFor(currentState, suspectId, motiveId)
                after == TierFor(currentState', suspectId, motiveId)
            IN /\ TierRank(after) >= TierRank(before)
               /\ (CriticalDiscovered(currentState') = CriticalDiscovered(currentState))
                     => after = before
               /\ (lastOp'.op = "discoverClue"
                   /\ ~includes(CASE_SOLUTION.criticalClueIds, lastOp'.args[1]))
                     => after = before]_vars

\* The third critical clue was just discovered: the culprit with a wrong
\* motive is now 'close', and a non-critical clue is among the discovered
C37_Witness ==
    /\ lastOp.op = "discoverClue"
    /\ ret.tag = "clue"
    /\ includes(CASE_SOLUTION.criticalClueIds, ret.id)
    /\ CriticalDiscovered(currentState) = 3
    /\ Len(currentState.discoveredClueIds) = 4
    /\ TierFor(currentState, "rhea", "greed") = "close"

\* C38: the displayed confidence agrees with the ending tier for every
\* score: it is 100.0% exactly when the ending is 'perfect', every 'close'
\* outcome shows at least 72.0% and every 'wrong' outcome at most 68.0%
\* (so close is always above wrong), and the value is within [0, 1] before
\* the clamp, which therefore changes nothing.
C38_ConfidenceAndTier ==
    lastOp.op = "handleAccusationSubmit" =>
        \A i \in ConfidenceMessages(feed) :
            LET score == feed[i].score
                confidence == feed[i].confidence
                endingKey == currentState.endingKey
            IN /\ score = currentState.score
               /\ (confidence = 1000) <=> (endingKey = "perfect")
               /\ endingKey = "close" => confidence >= 720 /\ confidence < 1000
               /\ endingKey = "wrong" => confidence <= 680
               /\ endingKey \in {"perfect", "close", "wrong"}
               /\ WeightedTimesTotal(score) \in 0..(1000 * score.criticalCluesTotal)
               /\ confidence * score.criticalCluesTotal = WeightedTimesTotal(score)

\* The lowest 'close': the culprit with a wrong motive and three critical
\* clues shows 72.0%
C38_Witness ==
    /\ lastOp.op = "handleAccusationSubmit"
    /\ currentState.endingKey = "close"
    /\ ~currentState.score.motiveCorrect
    /\ currentState.score.criticalCluesFound = 3
    /\ \E i \in ConfidenceMessages(feed) : feed[i].confidence = 720

====
